---- MODULE Spec2Model ----
(***************************************************************************)
(* tkseal: reconciliation of cluster secrets, the local plaintext file and *)
(* the local sealed file.  The model follows src/src/tkseal: secret.py     *)
(* (classification, decoding, canonical JSON), tkseal_utils.py and diff.py *)
(* (normalisation and unified diff), secret_state.py (cluster cache),      *)
(* pull.py, seal.py and the pull/seal commands of cli.py.                  *)
(***************************************************************************)
EXTENDS Integers, Sequences, FiniteSets, TLC

VARIABLES
    format,       \* SecretState.format: the --format option of the command
    cluster,      \* what `kubectl get secrets -o yaml` answers right now
    plainFile,    \* content of plain_secrets.<format>, or Absent
    sealedFile,   \* content of sealed_secrets.<format>, or Absent
    cache,        \* SecretState._secrets_cache: None or a Secrets object
    fetchCount,   \* KubeCtl.get_secrets invocations made by this SecretState
    sealCalls,    \* KubeSeal.seal invocations of the last Seal.run, in order
    last,         \* the last operation and what it returned or raised
    compared,     \* the cluster text the latest completed Pull.run diffed
    rawIn,        \* classification study: the raw listing handed to Secrets()
    secretsOut,   \* classification study: what Secrets(rawIn) built or raised
    kubeText,     \* diff study: text answered by the kube_secrets() stub
    plainText,    \* diff study: text answered by the plain_secrets() stub
    diffOut,      \* diff study: results of Diff.plain() and Diff.pull()
    invocations,  \* concurrent runs: each process's command, position, locals
    history       \* concurrent runs: the fetches, reads and writes, in order

vars == << format, cluster, plainFile, sealedFile, cache, fetchCount,
           sealCalls, last, compared, rawIn, secretsOut, kubeText, plainText,
           diffOut, invocations, history >>

-----------------------------------------------------------------------------
(* Bounds of the model *)

\* longest raw cluster listing (number of items)
MaxItems == 2
\* most cluster fetches one SecretState instance attempts
MaxFetch == 2

-----------------------------------------------------------------------------
(* configuration.py: the static policy table *)

MANAGED_SECRET_TYPES ==
    { "Opaque", "kubernetes.io/basic-auth", "kubernetes.io/ssh-auth" }

MANAGED_SECRET_CAREFULLY_TYPES == { "kubernetes.io/dockerconfigjson" }

FORBIDDEN_SECRET_TYPES ==
    { "kubernetes.io/service-account-token", "bootstrap.kubernetes.io/token",
      "helm.sh/release.v1", "kubernetes.io/tls" }

\* a type that is in none of the three policy sets
UnlistedTypes == { "example.com/custom" }

\* the raw record has no "type" key: raw.get("type") is None
NoType == "<no type key>"

AllTypes ==
    MANAGED_SECRET_TYPES \cup MANAGED_SECRET_CAREFULLY_TYPES
        \cup FORBIDDEN_SECRET_TYPES \cup UnlistedTypes \cup { NoType }

-----------------------------------------------------------------------------
(* Results of calls: a value, or the exception that was raised *)

None == [ none |-> TRUE ]

Ok(v) == [ ok |-> TRUE, cls |-> "", what |-> "", val |-> v ]

\* cls is the exception class, what the category of its message
Raise(cls, what) == [ ok |-> FALSE, cls |-> cls, what |-> what, val |-> None ]

-----------------------------------------------------------------------------
(* base64.b64decode(encoded_value).decode() on the payloads of the model *)

\* encoded payloads: three that decode, one with incorrect padding, and one
\* made of characters outside the alphabet, which b64decode (validate=False)
\* discards before decoding what is left
EncodedValues == { "c2VjcmV0MTIz", "bmV3MTIz", "dG9rZW4=", "abc", "####" }

\* base64.b64decode(encoded_value).decode()
b64decode(encoded_value) ==
    CASE encoded_value = "c2VjcmV0MTIz" -> Ok("secret123")
      [] encoded_value = "bmV3MTIz"     -> Ok("new123")
      [] encoded_value = "dG9rZW4="     -> Ok("token")
      [] encoded_value = "####"         -> Ok("")
      [] OTHER                          -> Raise("binascii.Error", "padding")

-----------------------------------------------------------------------------
(* Raw cluster records: {metadata: {name}, type?, data: {key: base64}}.    *)
(* data is an ordered mapping: a sequence of <<key, value>> with distinct  *)
(* keys, in the order the mapping iterates.  Names are unique within a     *)
(* namespace: the i-th item of a listing carries the i-th name.            *)

ItemNames == << "app-secret", "db-secret", "tls-secret", "web-secret" >>

RawDataMaps ==
    { << >>,
      << << "password", "c2VjcmV0MTIz" >> >>,
      << << "password", "bmV3MTIz" >>, << "username", "c2VjcmV0MTIz" >> >>,
      << << "password", "abc" >> >>,
      << << "password", "c2VjcmV0MTIz" >>, << "token", "####" >> >> }

\* the types the listings of the model draw from: every policy class
TypePool ==
    { "Opaque", "kubernetes.io/dockerconfigjson", "kubernetes.io/tls",
      "kubernetes.io/service-account-token", "example.com/custom", NoType }

RawRecord(name, type, data) == [ name |-> name, type |-> type, data |-> data ]

ItemsOfLen(n, types, datas) ==
    { [ i \in 1..n |-> RawRecord(ItemNames[i], c[i][1], c[i][2]) ]
        : c \in [1..n -> types \X datas] }

\* what yaml.safe_load made of the kubectl output: a mapping, with or
\* without the items key, None for empty output, or a sequence
Listing(items) == [ shape |-> "mapping", hasItems |-> TRUE, items |-> items ]

NoItemsListing == [ shape |-> "mapping", hasItems |-> FALSE, items |-> << >> ]

NoneListing == [ shape |-> "None", hasItems |-> FALSE, items |-> << >> ]

SequenceListing == [ shape |-> "list", hasItems |-> FALSE, items |-> << >> ]

RawListings ==
    { NoItemsListing, NoneListing, SequenceListing } \cup
    UNION { { Listing(it) : it \in ItemsOfLen(n, TypePool, RawDataMaps) }
            : n \in 0..MaxItems }

\* raw.get("type", default)
RawGet_type(raw, default) == IF raw.type = NoType THEN default ELSE raw.type

-----------------------------------------------------------------------------
(* secret.py: Secret, ForbiddenSecret, Secrets *)

RECURSIVE DecodePairs(_, _)
\* the loop of Secret.data: the first value that fails to decode raises
DecodePairs(pairs, acc) ==
    IF pairs = << >> THEN Ok(acc)
    ELSE LET d == b64decode(Head(pairs)[2])
         IN  IF ~d.ok THEN d
             ELSE DecodePairs(Tail(pairs),
                    Append(acc, [ key |-> Head(pairs)[1],
                                  plain_value |-> d.val,
                                  encoded_value |-> Head(pairs)[2] ]))

\* Secret.data
Secret_data(raw) == DecodePairs(raw.data, << >>)

\* mutant: ForbiddenSecret without its override inherits Secret.data
ForbiddenSecret_data_inherited(raw) == Secret_data(raw)

\* ForbiddenSecret.data
ForbiddenSecret_data(raw) == Raise("TKSealError", "forbidden data")

\* Secret.type
Secret_type(raw) == RawGet_type(raw, "")

\* the test of Secrets.get_forbidden_secrets: raw.get("type") in FORBIDDEN
IsForbiddenRaw(raw) == raw.type \in FORBIDDEN_SECRET_TYPES

\* Secrets.get_forbidden_secrets
get_forbidden_secrets_of(raw_secrets) ==
    SelectSeq(raw_secrets.items, IsForbiddenRaw)

\* mutant: a forbidden type slipped into the allow-list
allowed_types_with_tls ==
    MANAGED_SECRET_TYPES \cup MANAGED_SECRET_CAREFULLY_TYPES
        \cup { "kubernetes.io/tls" }

\* Secrets.allowed_types
allowed_types == MANAGED_SECRET_TYPES \cup MANAGED_SECRET_CAREFULLY_TYPES

\* mutant: the filter falls back on the empty type, as Secret.type does
IsAllowedRaw_empty_default(raw) == RawGet_type(raw, "") \in allowed_types

\* mutant: the filter is the deny list alone
IsAllowedRaw_deny_list(raw) == raw.type \notin FORBIDDEN_SECRET_TYPES

\* the test of the comprehension that builds Secrets.items
IsAllowedRaw(raw) == RawGet_type(raw, "Opaque") \in allowed_types

\* Secrets.__init__
Secrets(raw_secrets) ==
    IF raw_secrets.shape = "None"
    THEN Raise("TypeError", "argument of type 'NoneType' is not iterable")
    ELSE IF raw_secrets.shape = "list"
    THEN Raise("AttributeError", "'list' object has no attribute 'keys'")
    ELSE IF ~raw_secrets.hasItems
    THEN Raise("TKSealError", "no items key")
    ELSE Ok([ forbidden_secrets |-> get_forbidden_secrets_of(raw_secrets),
              items |-> SelectSeq(raw_secrets.items, IsAllowedRaw) ])

-----------------------------------------------------------------------------
(* Texts.  A text is kept as what it spells: its syntax, the document it   *)
(* denotes and its trailing newlines.  A document is the list-of-record    *)
(* shape [{name, data: {key: value}, type?}].                              *)
(*   syn "empty"   the empty string                                        *)
(*   syn "blank"   whitespace only                                         *)
(*   syn "json"    a JSON array, style "indent2" (json.dumps(indent=2))    *)
(*                 or "compact" (one line)                                 *)
(*   syn "yaml"    a YAML block sequence as yaml.dump writes it            *)
(*   syn "garbage" text that is neither JSON nor YAML ("{bad")             *)
(* "[]" is the indent2 text of the empty document.                         *)

Text(syn, style, doc, trail) ==
    [ syn |-> syn, style |-> style, doc |-> doc, trail |-> trail ]

EmptyText == Text("empty", "", << >>, 0)

BlankText == Text("blank", "", << >>, 1)

GarbageText == Text("garbage", "", << >>, 0)

EmptyArrayText == Text("json", "indent2", << >>, 0)

\* the value None where a document is expected
NoneDoc == << None >>

SecretDict(name, data, type) == [ name |-> name, data |-> data, type |-> type ]

\* JSONSerializer.serialize_secrets: json.dumps(data, indent=2)
json_serialize_secrets(data) == Text("json", "indent2", data, 0)

\* JSONSerializer.deserialize_secrets: json.loads(content)
json_deserialize_secrets(content) ==
    IF content.syn = "json" THEN Ok(content.doc)
    ELSE Raise("JSONDecodeError", "not JSON")

\* Python values that are not str, as yaml.safe_load builds them from plain
\* scalars: the int 123, True and None
PyInt123 == "<int 123>"

PyTrue == "<bool True>"

PyNull == "<None>"

\* mutant: every string is written as a plain scalar, never quoted
represent_str_unquoted(s) == s

\* how yaml.dump spells a str: a plain scalar, unless the plain spelling
\* would load as another type (or as nothing), which it writes in quotes
represent_str(s) ==
    CASE s = ""     -> "''"
      [] s = "123"  -> "'123'"
      [] s = "true" -> "'true'"
      [] OTHER      -> s

\* what yaml.safe_load makes of one scalar: a quoted scalar is the str
\* between the quotes, a plain one goes through the implicit resolver
construct_scalar(spelling) ==
    CASE spelling = "''"     -> ""
      [] spelling = "'123'"  -> "123"
      [] spelling = "'true'" -> "true"
      [] spelling = "123"    -> PyInt123
      [] spelling = "true"   -> PyTrue
      [] spelling = ""       -> PyNull
      [] OTHER               -> spelling

\* the type entry of a record or resource, which may be missing
RepresentType(type) == IF type = NoType THEN NoType ELSE represent_str(type)

ConstructType(type) == IF type = NoType THEN NoType ELSE construct_scalar(type)

\* the key/value pairs of a mapping, each scalar written by yaml.dump
RepresentPairs(pairs) ==
    [ k \in DOMAIN pairs |->
        << represent_str(pairs[k][1]), represent_str(pairs[k][2]) >> ]

ConstructPairs(pairs) ==
    [ k \in DOMAIN pairs |->
        << construct_scalar(pairs[k][1]), construct_scalar(pairs[k][2]) >> ]

\* the metadata mapping of a SealedSecret resource
RepresentMeta(m) ==
    [ name |-> represent_str(m.name), namespace |-> represent_str(m.namespace) ]

ConstructMeta(m) ==
    [ name |-> construct_scalar(m.name),
      namespace |-> construct_scalar(m.namespace) ]

\* one element of the list yaml.dump writes: a plaintext record, or a
\* SealedSecret resource
RepresentNode(d) ==
    IF "kind" \in DOMAIN d
    THEN [ kind |-> represent_str(d.kind),
           apiVersion |-> represent_str(d.apiVersion),
           metadata |-> RepresentMeta(d.metadata),
           spec |-> [ template |->
                        [ metadata |-> RepresentMeta(d.spec.template.metadata),
                          type |-> RepresentType(d.spec.template.type) ],
                      encryptedData |-> RepresentPairs(d.spec.encryptedData) ] ]
    ELSE [ name |-> represent_str(d.name), data |-> RepresentPairs(d.data),
           type |-> RepresentType(d.type) ]

\* one element of the list yaml.safe_load builds
ConstructNode(d) ==
    IF "kind" \in DOMAIN d
    THEN [ kind |-> construct_scalar(d.kind),
           apiVersion |-> construct_scalar(d.apiVersion),
           metadata |-> ConstructMeta(d.metadata),
           spec |-> [ template |->
                        [ metadata |-> ConstructMeta(d.spec.template.metadata),
                          type |-> ConstructType(d.spec.template.type) ],
                      encryptedData |-> ConstructPairs(d.spec.encryptedData) ] ]
    ELSE [ name |-> construct_scalar(d.name), data |-> ConstructPairs(d.data),
           type |-> ConstructType(d.type) ]

\* YAMLSerializer.serialize_secrets: yaml.dump(data, ...); the document of
\* the text holds the scalars as they are spelled; the empty list is
\* written in flow style, "[]" and a newline
yaml_serialize_secrets(data) ==
    IF data = << >> THEN Text("json", "indent2", << >>, 1)
    ELSE Text("yaml", "block", [ i \in DOMAIN data |-> RepresentNode(data[i]) ],
              1)

\* YAMLSerializer.deserialize_secrets: yaml.safe_load(content); JSON is
\* read as YAML flow syntax (its strings are quoted scalars), an empty
\* stream loads as None
yaml_deserialize_secrets(content) ==
    CASE content.syn = "json" -> Ok(content.doc)
      [] content.syn = "yaml" ->
           Ok([ i \in DOMAIN content.doc |-> ConstructNode(content.doc[i]) ])
      [] content.syn \in { "empty", "blank" } -> Ok(NoneDoc)
      [] OTHER -> Raise("YAMLError", "not YAML")

\* the --format choices of the commands
Formats == { "json", "yaml" }

\* serializers.serialize_secrets / get_serializer(format).serialize_secrets
serialize_secrets(data, fmt) ==
    IF fmt = "json" THEN json_serialize_secrets(data)
    ELSE yaml_serialize_secrets(data)

\* serializers.deserialize_secrets / get_serializer(format).deserialize_secrets
deserialize_secrets(content, fmt) ==
    IF fmt = "json" THEN json_deserialize_secrets(content)
    ELSE yaml_deserialize_secrets(content)

\* content.strip()
IsBlank(content) == content.syn \in { "empty", "blank" }

\* content.strip() == "[]"
StripsToEmptyArray(content) ==
    content.syn = "json" /\ content.style = "indent2" /\ content.doc = << >>

\* mutant: the empty operands are not short-cut to "[]"
normalize_to_json_no_shortcut(content, source_format) ==
    LET data == deserialize_secrets(content, source_format)
    IN  IF data.ok THEN Ok(json_serialize_secrets(data.val)) ELSE data

\* mutant: text that json.dumps(indent=2) wrote is handed on as it is read,
\* trailing newlines included, instead of being parsed and written again
normalize_to_json_keeps_json_text(content, source_format) ==
    IF IsBlank(content) \/ StripsToEmptyArray(content)
    THEN Ok(EmptyArrayText)
    ELSE IF content.syn = "json" /\ content.style = "indent2"
    THEN Ok(content)
    ELSE LET data == deserialize_secrets(content, source_format)
         IN  IF data.ok THEN Ok(json_serialize_secrets(data.val)) ELSE data

\* tkseal_utils.normalize_to_json
normalize_to_json(content, source_format) ==
    IF IsBlank(content) \/ StripsToEmptyArray(content)
    THEN Ok(EmptyArrayText)
    ELSE LET data == deserialize_secrets(content, source_format)
         IN  IF data.ok THEN Ok(json_serialize_secrets(data.val)) ELSE data

RECURSIVE ToJsonDoc(_, _)
\* the loop of Secrets.to_json over self.items
ToJsonDoc(items, output) ==
    IF items = << >> THEN Ok(output)
    ELSE LET secret == Head(items)
             pairs  == Secret_data(secret)
         IN  IF ~pairs.ok THEN pairs
             ELSE ToJsonDoc(Tail(items),
                    Append(output,
                      SecretDict(secret.name,
                                 [ i \in DOMAIN pairs.val |->
                                     << pairs.val[i].key,
                                        pairs.val[i].plain_value >> ],
                                 Secret_type(secret))))

\* mutant: the forbidden records are exported with the manageable ones
to_json_with_forbidden(secrets) ==
    LET output == ToJsonDoc(secrets.items \o secrets.forbidden_secrets, << >>)
    IN  IF output.ok THEN Ok(json_serialize_secrets(output.val)) ELSE output

\* Secrets.to_json
to_json(secrets) ==
    LET output == ToJsonDoc(secrets.items, << >>)
    IN  IF output.ok THEN Ok(json_serialize_secrets(output.val)) ELSE output

-----------------------------------------------------------------------------
(* diff.py: str.splitlines(keepends=True) of a normalized text, and        *)
(* difflib.unified_diff(from_lines, to_lines, fromfile, tofile,            *)
(* lineterm="") with its default of three context lines.                   *)

RECURSIVE Flatten(_)
Flatten(ss) == IF ss = << >> THEN << >> ELSE Head(ss) \o Flatten(Tail(ss))

Quoted(str) == "\"" \o str \o "\""

\* how json.dumps writes a value: a str in quotes, an int, a bool and None
\* as literals
JsonScalar(v) ==
    CASE v = PyInt123 -> "123"
      [] v = PyTrue   -> "true"
      [] v = PyNull   -> "null"
      [] OTHER        -> Quoted(v)

\* the lines json.dumps(indent=2) writes for one mapping of data
DataLines(data, comma) ==
    IF data = << >> THEN << "    \"data\": {}" \o comma \o "\n" >>
    ELSE << "    \"data\": {\n" >>
         \o [ i \in DOMAIN data |->
                "      " \o Quoted(data[i][1]) \o ": " \o JsonScalar(data[i][2])
                  \o (IF i < Len(data) THEN "," ELSE "") \o "\n" ]
         \o << "    }" \o comma \o "\n" >>

\* the lines json.dumps(indent=2) writes for one record, keys in dict order
RecordLines(d, isLast) ==
    << "  {\n", "    \"name\": " \o JsonScalar(d.name) \o ",\n" >>
    \o DataLines(d.data, IF d.type = NoType THEN "" ELSE ",")
    \o (IF d.type = NoType THEN << >>
        ELSE << "    \"type\": " \o JsonScalar(d.type) \o "\n" >>)
    \o << "  }" \o (IF isLast THEN "" ELSE ",") \o "\n" >>

\* the lines of a text json.dumps(indent=2) wrote, the last one without a
\* terminator; "null" for the document None
BodyLines(text) ==
    CASE text.doc = NoneDoc -> << "null" >>
      [] text.doc = << >> -> << "[]" >>
      [] OTHER ->
           << "[\n" >>
           \o Flatten([ i \in DOMAIN text.doc |->
                          RecordLines(text.doc[i], i = Len(text.doc)) ])
           \o << "]" >>

\* text.splitlines(keepends=True): the first trailing newline ends the last
\* line of the body, every further one is a blank line
splitlines(text) ==
    IF text.trail = 0 THEN BodyLines(text)
    ELSE [ BodyLines(text) EXCEPT ![Len(BodyLines(text))] = @ \o "\n" ]
         \o [ k \in 1..(text.trail - 1) |-> "\n" ]

RECURSIVE MatchLen(_, _, _, _, _, _)
\* length of the common run of a from i and b from j, inside the window
MatchLen(a, b, i, j, ahi, bhi) ==
    IF i > ahi \/ j > bhi THEN 0
    ELSE IF a[i] # b[j] THEN 0
    ELSE 1 + MatchLen(a, b, i + 1, j + 1, ahi, bhi)

RECURSIVE ScanRow(_, _, _, _, _, _, _)
\* the scan of find_longest_match along b for one position of a: a block
\* replaces the best one so far only when it is strictly longer (no block
\* starting at i can be longer than what is left of a)
ScanRow(a, b, i, j, ahi, bhi, best) ==
    IF best[3] >= ahi - i + 1 \/ j > bhi THEN best
    ELSE LET k == MatchLen(a, b, i, j, ahi, bhi)
         IN  ScanRow(a, b, i, j + 1, ahi, bhi,
                     IF k > best[3] THEN << i, j, k >> ELSE best)

RECURSIVE ScanMatches(_, _, _, _, _, _, _)
\* the scan of find_longest_match along a
ScanMatches(a, b, i, ahi, blo, bhi, best) ==
    IF best[3] >= ahi - i + 1 \/ i > ahi THEN best
    ELSE ScanMatches(a, b, i + 1, ahi, blo, bhi,
                     ScanRow(a, b, i, blo, ahi, bhi, best))

\* SequenceMatcher.find_longest_match on a[alo..ahi], b[blo..bhi] (no junk:
\* the texts are far shorter than the 200 lines of the autojunk heuristic):
\* the longest block, of those the one starting earliest in a, and of
\* those the one starting earliest in b
find_longest_match(a, b, alo, ahi, blo, bhi) ==
    ScanMatches(a, b, alo, ahi, blo, bhi, << alo, blo, 0 >>)

RECURSIVE MatchingBlocks(_, _, _, _, _, _)
\* the recursion of SequenceMatcher.get_matching_blocks
MatchingBlocks(a, b, alo, ahi, blo, bhi) ==
    LET m == find_longest_match(a, b, alo, ahi, blo, bhi)
    IN  IF m[3] = 0 THEN << >>
        ELSE MatchingBlocks(a, b, alo, m[1] - 1, blo, m[2] - 1)
             \o << m >>
             \o MatchingBlocks(a, b, m[1] + m[3], ahi, m[2] + m[3], bhi)

RECURSIVE MergeAdjacent(_, _)
\* get_matching_blocks collapses adjacent blocks into one
MergeAdjacent(blocks, cur) ==
    IF blocks = << >> THEN (IF cur[3] > 0 THEN << cur >> ELSE << >>)
    ELSE LET nxt == Head(blocks)
         IN  IF cur[1] + cur[3] = nxt[1] /\ cur[2] + cur[3] = nxt[2]
             THEN MergeAdjacent(Tail(blocks),
                                << cur[1], cur[2], cur[3] + nxt[3] >>)
             ELSE (IF cur[3] > 0 THEN << cur >> ELSE << >>)
                  \o MergeAdjacent(Tail(blocks), nxt)

\* SequenceMatcher.get_matching_blocks, the (len(a), len(b), 0) sentinel last
get_matching_blocks(a, b) ==
    MergeAdjacent(MatchingBlocks(a, b, 1, Len(a), 1, Len(b)), << 1, 1, 0 >>)
    \o << << Len(a) + 1, Len(b) + 1, 0 >> >>

Opcode(tag, i1, i2, j1, j2) ==
    [ tag |-> tag, i1 |-> i1, i2 |-> i2, j1 |-> j1, j2 |-> j2 ]

RECURSIVE OpcodesFrom(_, _, _)
\* SequenceMatcher.get_opcodes; an opcode covers a[i1..i2-1] and b[j1..j2-1]
OpcodesFrom(blocks, i, j) ==
    IF blocks = << >> THEN << >>
    ELSE LET m   == Head(blocks)
             tag == CASE i < m[1] /\ j < m[2] -> "replace"
                      [] i < m[1] /\ ~(j < m[2]) -> "delete"
                      [] ~(i < m[1]) /\ j < m[2] -> "insert"
                      [] OTHER -> ""
         IN  (IF tag # "" THEN << Opcode(tag, i, m[1], j, m[2]) >> ELSE << >>)
             \o (IF m[3] > 0
                 THEN << Opcode("equal", m[1], m[1] + m[3], m[2], m[2] + m[3]) >>
                 ELSE << >>)
             \o OpcodesFrom(Tail(blocks), m[1] + m[3], m[2] + m[3])

get_opcodes(a, b) == OpcodesFrom(get_matching_blocks(a, b), 1, 1)

\* the context lines of difflib.unified_diff (its default n)
ContextLines == 3

Max(x, y) == IF x > y THEN x ELSE y

Min(x, y) == IF x < y THEN x ELSE y

\* get_grouped_opcodes: the leading and the trailing equal run are cut to
\* ContextLines
TrimEnds(codes) ==
    LET n  == Len(codes)
        f  == codes[1]
        c1 == IF f.tag = "equal"
              THEN [ codes EXCEPT ![1] =
                       Opcode("equal", Max(f.i1, f.i2 - ContextLines), f.i2,
                              Max(f.j1, f.j2 - ContextLines), f.j2) ]
              ELSE codes
        l  == c1[n]
    IN  IF l.tag = "equal"
        THEN [ c1 EXCEPT ![n] =
                 Opcode("equal", l.i1, Min(l.i2, l.i1 + ContextLines),
                        l.j1, Min(l.j2, l.j1 + ContextLines)) ]
        ELSE c1

RECURSIVE GroupFrom(_, _)
\* get_grouped_opcodes: a long equal run ends one group and starts the next
GroupFrom(codes, group) ==
    IF codes = << >>
    THEN (IF group # << >> /\ ~(Len(group) = 1 /\ group[1].tag = "equal")
          THEN << group >> ELSE << >>)
    ELSE LET c == Head(codes)
         IN  IF c.tag = "equal" /\ c.i2 - c.i1 > 2 * ContextLines
             THEN << Append(group,
                       Opcode("equal", c.i1, Min(c.i2, c.i1 + ContextLines),
                              c.j1, Min(c.j2, c.j1 + ContextLines))) >>
                  \o GroupFrom(Tail(codes),
                       << Opcode("equal", Max(c.i1, c.i2 - ContextLines), c.i2,
                                 Max(c.j1, c.j2 - ContextLines), c.j2) >>)
             ELSE GroupFrom(Tail(codes), Append(group, c))

\* SequenceMatcher.get_grouped_opcodes(n=3)
get_grouped_opcodes(a, b) ==
    LET codes == get_opcodes(a, b)
    IN  GroupFrom(TrimEnds(IF codes = << >>
                           THEN << Opcode("equal", 1, 2, 1, 2) >>
                           ELSE codes), << >>)

\* difflib._format_range_unified, on the 1-based half-open range start..stop
format_range_unified(start, stop) ==
    LET length == stop - start
    IN  IF length = 1 THEN ToString(start)
        ELSE ToString(IF length = 0 THEN start - 1 ELSE start)
             \o "," \o ToString(length)

Prefixed(mark, lines, lo, hi) ==
    [ k \in 1..(hi - lo) |-> mark \o lines[lo + k - 1] ]

\* the lines unified_diff yields for one opcode
OpcodeLines(a, b, c) ==
    CASE c.tag = "equal" -> Prefixed(" ", a, c.i1, c.i2)
      [] c.tag = "delete" -> Prefixed("-", a, c.i1, c.i2)
      [] c.tag = "insert" -> Prefixed("+", b, c.j1, c.j2)
      [] OTHER -> Prefixed("-", a, c.i1, c.i2) \o Prefixed("+", b, c.j1, c.j2)

\* the lines unified_diff yields for one group: the @@ line and its body
HunkLines(a, b, group) ==
    << "@@ -" \o format_range_unified(group[1].i1, group[Len(group)].i2)
       \o " +" \o format_range_unified(group[1].j1, group[Len(group)].j2)
       \o " @@" >>
    \o Flatten([ k \in DOMAIN group |-> OpcodeLines(a, b, group[k]) ])

\* mutant: the two header lines are emitted even when no hunk follows
unified_diff_headers_always(a, b, fromfile, tofile) ==
    LET groups == get_grouped_opcodes(a, b)
    IN  << "--- " \o fromfile, "+++ " \o tofile >>
        \o Flatten([ g \in DOMAIN groups |-> HunkLines(a, b, groups[g]) ])

\* difflib.unified_diff(a, b, fromfile, tofile, lineterm=""), as a list
unified_diff(a, b, fromfile, tofile) ==
    LET groups == get_grouped_opcodes(a, b)
    IN  IF groups = << >> THEN << >>
        ELSE << "--- " \o fromfile, "+++ " \o tofile >>
             \o Flatten([ g \in DOMAIN groups |-> HunkLines(a, b, groups[g]) ])

\* DiffResult; diff_output is the list of lines that "\n".join() glues, the
\* empty list standing for the empty string
DiffResult(has_differences, diff_output) ==
    [ has_differences |-> has_differences, diff_output |-> diff_output ]

\* Diff._generate_diff
generate_diff(from_text, to_text, from_label, to_label) ==
    LET diff_lines == unified_diff(splitlines(from_text), splitlines(to_text),
                                   from_label, to_label)
    IN  IF diff_lines = << >> THEN DiffResult(FALSE, << >>)
        ELSE DiffResult(TRUE, diff_lines)

\* configuration.PLAIN_SECRETS_FILE with the format as extension
PlainLabel(fmt) == "plain_secrets." \o fmt

\* Diff.plain, on what kube_secrets() and plain_secrets() answered
Diff_plain(kube_secrets, plain_secrets, fmt) ==
    LET kube_secrets_normalized  == normalize_to_json(kube_secrets, "json")
        plain_secrets_normalized == normalize_to_json(plain_secrets, fmt)
    IN  IF ~kube_secrets_normalized.ok THEN kube_secrets_normalized
        ELSE IF ~plain_secrets_normalized.ok THEN plain_secrets_normalized
        ELSE Ok(generate_diff(kube_secrets_normalized.val,
                              plain_secrets_normalized.val,
                              "cluster", PlainLabel(fmt)))

\* mutant: pull compares in the direction of plain, labels swapped
Diff_pull_same_direction(kube_secrets, plain_secrets, fmt) ==
    LET plain_secrets_normalized == normalize_to_json(plain_secrets, fmt)
        kube_secrets_normalized  == normalize_to_json(kube_secrets, "json")
    IN  IF ~plain_secrets_normalized.ok THEN plain_secrets_normalized
        ELSE IF ~kube_secrets_normalized.ok THEN kube_secrets_normalized
        ELSE Ok(generate_diff(kube_secrets_normalized.val,
                              plain_secrets_normalized.val,
                              PlainLabel(fmt), "cluster"))

\* Diff.pull, on what plain_secrets() and kube_secrets() answered
Diff_pull(kube_secrets, plain_secrets, fmt) ==
    LET plain_secrets_normalized == normalize_to_json(plain_secrets, fmt)
        kube_secrets_normalized  == normalize_to_json(kube_secrets, "json")
    IN  IF ~plain_secrets_normalized.ok THEN plain_secrets_normalized
        ELSE IF ~kube_secrets_normalized.ok THEN kube_secrets_normalized
        ELSE Ok(generate_diff(plain_secrets_normalized.val,
                              kube_secrets_normalized.val,
                              PlainLabel(fmt), "cluster"))

-----------------------------------------------------------------------------
(* Classification study: Secrets(raw) built from every raw listing of the  *)
(* model, and the data property read on the objects it holds.              *)

LastNone == [ op |-> "" ]

ClassifyVarsNoLast == << rawIn, secretsOut >>

ClassifyVars == << rawIn, secretsOut, last >>

DiffVars == << kubeText, plainText, diffOut >>

RaceVars == << invocations, history >>

StateVars == << cluster, plainFile, sealedFile, cache, fetchCount, sealCalls,
                compared, RaceVars >>

InitClassify ==
    /\ rawIn \in RawListings
    /\ secretsOut = None
    /\ last = LastNone
    /\ format = "json"
    /\ cluster = NoItemsListing
    /\ plainFile = None /\ sealedFile = None /\ cache = None
    /\ fetchCount = 0 /\ sealCalls = << >> /\ compared = None
    /\ kubeText = None /\ plainText = None /\ diffOut = None
    /\ invocations = None /\ history = << >>

\* Secrets(raw_secrets)
Construct ==
    /\ secretsOut = None
    /\ secretsOut' = Secrets(rawIn)
    /\ UNCHANGED << rawIn, last, format, StateVars, DiffVars >>

\* secret.data on a Secret of Secrets.items
ReadSecretData ==
    /\ secretsOut # None /\ secretsOut.ok
    /\ \E i \in DOMAIN secretsOut.val.items :
         last' = [ op |-> "Secret.data", raw |-> secretsOut.val.items[i],
                   res |-> Secret_data(secretsOut.val.items[i]) ]
    /\ UNCHANGED << rawIn, secretsOut, format, StateVars, DiffVars >>

\* secret.data on a ForbiddenSecret of Secrets.forbidden_secrets
ReadForbiddenData ==
    /\ secretsOut # None /\ secretsOut.ok
    /\ \E i \in DOMAIN secretsOut.val.forbidden_secrets :
         last' = [ op |-> "ForbiddenSecret.data",
                   raw |-> secretsOut.val.forbidden_secrets[i],
                   res |-> ForbiddenSecret_data(
                             secretsOut.val.forbidden_secrets[i]) ]
    /\ UNCHANGED << rawIn, secretsOut, format, StateVars, DiffVars >>

NextClassify == Construct \/ ReadSecretData \/ ReadForbiddenData

SpecClassify == InitClassify /\ [][NextClassify]_vars

InSeq(x, s) == \E k \in DOMAIN s : s[k] = x

Occurrences(x, s) == Cardinality({ k \in DOMAIN s : s[k] = x })

\* where a raw record of the listing ended up
Bucket(raw, secrets) ==
    { b \in { "manageable", "forbidden" } :
        \/ b = "manageable" /\ InSeq(raw, secrets.items)
        \/ b = "forbidden" /\ InSeq(raw, secrets.forbidden_secrets) }

\* C1: every listing with an items key is classified without error; each
\* raw record is in at most one of the two lists (otherwise it is dropped)
\* and at most once; both lists hold only records of the listing; a record
\* of a forbidden type is in the forbidden list and not in the manageable
\* list; a record whose type is in none of the policy sets is in neither.
C1_ClassificationTotalExclusive ==
    (secretsOut # None /\ rawIn.hasItems) =>
        /\ secretsOut.ok
        /\ \A k \in DOMAIN secretsOut.val.items :
             InSeq(secretsOut.val.items[k], rawIn.items)
        /\ \A k \in DOMAIN secretsOut.val.forbidden_secrets :
             InSeq(secretsOut.val.forbidden_secrets[k], rawIn.items)
        /\ \A i \in DOMAIN rawIn.items :
             LET raw == rawIn.items[i]
                 b   == Bucket(raw, secretsOut.val)
             IN  /\ Cardinality(b) <= 1
                 /\ Occurrences(raw, secretsOut.val.items) <= 1
                 /\ Occurrences(raw, secretsOut.val.forbidden_secrets) <= 1
                 /\ raw.type \in FORBIDDEN_SECRET_TYPES => b = { "forbidden" }
                 /\ raw.type \in UnlistedTypes => b = {}

\* a listing holding a forbidden record and an unlisted one was classified
C1_Witness ==
    /\ secretsOut # None /\ secretsOut.ok
    /\ \E i, j \in DOMAIN rawIn.items :
         /\ rawIn.items[i].type \in FORBIDDEN_SECRET_TYPES
         /\ rawIn.items[j].type \in UnlistedTypes
         /\ Bucket(rawIn.items[i], secretsOut.val) = { "forbidden" }
         /\ Bucket(rawIn.items[j], secretsOut.val) = {}

\* C3: reading the data of a ForbiddenSecret raises the access-denied
\* TKSealError whatever its payload, and returns no pair.
C3_ForbiddenDataAlwaysFails ==
    last.op = "ForbiddenSecret.data" =>
        /\ ~last.res.ok
        /\ last.res.cls = "TKSealError"
        /\ last.res.what = "forbidden data"

\* the data of a ForbiddenSecret whose payload is valid base64 was read
C3_Witness ==
    /\ last.op = "ForbiddenSecret.data"
    /\ last.raw.data = << << "password", "c2VjcmV0MTIz" >> >>
    /\ ~last.res.ok

-----------------------------------------------------------------------------
(* Diff study: Diff.plain() and Diff.pull() on a SecretState whose         *)
(* kube_secrets() and plain_secrets() answer given texts, as the unit      *)
(* tests of diff.py stub them.                                             *)

\* the records the documents of the study are made of, for the i-th name
DictPool(i) ==
    { SecretDict(ItemNames[i], << << "password", "secret123" >> >>, "Opaque"),
      SecretDict(ItemNames[i], << << "password", "new123" >>,
                                  << "username", "secret123" >> >>, NoType),
      SecretDict(ItemNames[i], << >>, "Opaque") }

DiffDocs ==
    UNION { { d \in [1..n -> UNION { DictPool(i) : i \in 1..n }] :
                \A i \in 1..n : d[i] \in DictPool(i) }
            : n \in 0..MaxItems }

\* texts kube_secrets() may answer: JSON as json.dumps(indent=2) writes it,
\* and the empty operands
KubeTexts ==
    { json_serialize_secrets(d) : d \in DiffDocs } \cup { EmptyText, BlankText }

\* the documents the study also keeps with two newlines after the text
TrailingDocs == { d \in DiffDocs : Len(d) = 1 }

\* texts plain_secrets() may answer: the same documents in either encoding
\* and layout, with trailing blank lines, the empty operands, "[]" with a
\* newline, and garbage
PlainTexts ==
    { json_serialize_secrets(d) : d \in DiffDocs }
    \cup { yaml_serialize_secrets(d) : d \in DiffDocs }
    \cup { Text("json", "compact", d, 1) : d \in DiffDocs \ { << >> } }
    \cup { Text("json", "indent2", d, 2) : d \in TrailingDocs }
    \cup { EmptyText, BlankText, GarbageText }

DiffNone == [ plain |-> None, pull |-> None ]

InitDiff ==
    /\ kubeText \in KubeTexts
    /\ plainText \in PlainTexts
    /\ format \in Formats
    /\ diffOut = DiffNone
    /\ rawIn = None /\ secretsOut = None /\ last = LastNone
    /\ cluster = NoItemsListing
    /\ plainFile = None /\ sealedFile = None /\ cache = None
    /\ fetchCount = 0 /\ sealCalls = << >> /\ compared = None
    /\ invocations = None /\ history = << >>

\* Diff(secret_state).plain()
DiffPlain ==
    /\ diffOut.plain = None
    /\ diffOut' = [ diffOut EXCEPT
                      !.plain = Diff_plain(kubeText, plainText, format) ]
    /\ UNCHANGED << kubeText, plainText, format, ClassifyVars, StateVars >>

\* Diff(secret_state).pull()
DiffPull ==
    /\ diffOut.pull = None
    /\ diffOut' = [ diffOut EXCEPT
                      !.pull = Diff_pull(kubeText, plainText, format) ]
    /\ UNCHANGED << kubeText, plainText, format, ClassifyVars, StateVars >>

NextDiff == DiffPlain \/ DiffPull

SpecDiff == InitDiff /\ [][NextDiff]_vars

\* the operands that denote the absent or empty secret set: "", whitespace,
\* "[]" and "[]" followed by a newline
EmptyOperands ==
    { EmptyText, BlankText, EmptyArrayText, Text("json", "indent2", << >>, 1) }

NoDifference(res) ==
    /\ res.ok
    /\ res.val.has_differences = FALSE
    /\ res.val.diff_output = << >>

\* C10: when kube_secrets() and plain_secrets() answer the same valid text
\* X, or each answers one of the empty operands, Diff.plain() and
\* Diff.pull() return has_differences = false and an empty diff_output.
C10_DiffSameIsEmpty ==
    (\/ plainText = kubeText
     \/ kubeText \in EmptyOperands /\ plainText \in EmptyOperands) =>
        /\ diffOut.plain # None => NoDifference(diffOut.plain)
        /\ diffOut.pull # None => NoDifference(diffOut.pull)

\* both modes ran on two copies of a text that holds two records
C10_Witness ==
    /\ plainText = kubeText
    /\ Len(kubeText.doc) = 2
    /\ diffOut.plain # None /\ diffOut.pull # None
    /\ NoDifference(diffOut.plain) /\ NoDifference(diffOut.pull)

-----------------------------------------------------------------------------
(* secret_state.py and pull.py: one SecretState instance, its cluster      *)
(* cache, and the operations that go through it.  Each operator returns    *)
(* the new cache slot, the number of KubeCtl.get_secrets invocations it    *)
(* made, and what the call returned or raised.                             *)

\* the plaintext or sealed file does not exist
Absent == Text("absent", "", << >>, 0)

\* what the backends do during one cluster fetch: tk status may fail, or
\* print a status without its Context or its Namespace line; kubectl may fail
Backends ==
    { "ok", "tk fails", "no context", "no namespace", "kubectl fails" }

\* mutant: the fetch reuses the TKEnvironment the state already holds
Secrets_for_tk_env_reusing_env(listing, backend) ==
    CASE backend = "no context" ->
           [ kubectl |-> 0, tk |-> 0,
             res |-> Raise("TKSealError", "Context not found") ]
      [] backend = "no namespace" ->
           [ kubectl |-> 0, tk |-> 0,
             res |-> Raise("TKSealError", "Namespace not found") ]
      [] backend = "kubectl fails" ->
           [ kubectl |-> 1, tk |-> 0, res |-> Raise("TKSealError", "kubectl") ]
      [] OTHER ->
           [ kubectl |-> 1, tk |-> 0, res |-> Secrets(listing) ]

\* Secrets.for_tk_env: TKEnvironment(path), which runs tk status, then
\* env.context and env.namespace, KubeCtl.get_secrets, Secrets()
Secrets_for_tk_env(listing, backend) ==
    CASE backend = "tk fails" ->
           [ kubectl |-> 0, tk |-> 1, res |-> Raise("TKSealError", "tk status") ]
      [] backend = "no context" ->
           [ kubectl |-> 0, tk |-> 1,
             res |-> Raise("TKSealError", "Context not found") ]
      [] backend = "no namespace" ->
           [ kubectl |-> 0, tk |-> 1,
             res |-> Raise("TKSealError", "Namespace not found") ]
      [] backend = "kubectl fails" ->
           [ kubectl |-> 1, tk |-> 1, res |-> Raise("TKSealError", "kubectl") ]
      [] OTHER ->
           [ kubectl |-> 1, tk |-> 1, res |-> Secrets(listing) ]

\* what a call on the state left and did: the cache slot, the
\* KubeCtl.get_secrets and the tk status invocations it made, its result
Call(c, fetched, resolved, res) ==
    [ cache |-> c, fetched |-> fetched, resolved |-> resolved, res |-> res ]

\* mutant: the cache slot is never consulted
kube_secrets_uncached(c, listing, backend) ==
    LET f == Secrets_for_tk_env(listing, backend)
    IN  IF f.res.ok THEN Call(f.res.val, f.kubectl, f.tk, to_json(f.res.val))
        ELSE Call(c, f.kubectl, f.tk, f.res)

\* mutant: a failed fetch leaves an empty collection in the slot
kube_secrets_caching_failure(c, listing, backend) ==
    IF c = None
    THEN LET f == Secrets_for_tk_env(listing, backend)
         IN  IF f.res.ok
             THEN Call(f.res.val, f.kubectl, f.tk, to_json(f.res.val))
             ELSE Call([ forbidden_secrets |-> << >>, items |-> << >> ],
                       f.kubectl, f.tk, f.res)
    ELSE Call(c, 0, 0, to_json(c))

\* SecretState.kube_secrets
kube_secrets(c, listing, backend) ==
    IF c = None
    THEN LET f == Secrets_for_tk_env(listing, backend)
         IN  IF f.res.ok
             THEN Call(f.res.val, f.kubectl, f.tk, to_json(f.res.val))
             ELSE Call(None, f.kubectl, f.tk, f.res)
    ELSE Call(c, 0, 0, to_json(c))

\* SecretState.get_forbidden_secrets
get_forbidden_secrets(c, listing, backend) ==
    IF c = None
    THEN LET k == kube_secrets(c, listing, backend)
         IN  IF k.res.ok
             THEN Call(k.cache, k.fetched, k.resolved,
                       Ok(k.cache.forbidden_secrets))
             ELSE k
    ELSE Call(c, 0, 0, Ok(c.forbidden_secrets))

\* Path.read_text on the plaintext file: readFails stands for a permission
\* or I/O error of the read
read_text(file, readFails) ==
    CASE file = Absent -> Raise("FileNotFoundError", "no such file")
      [] readFails -> Raise("PermissionError", "no access")
      [] OTHER -> Ok(file)

\* mutant: only the missing file is caught
plain_secrets_result_missing_only(file, readFails) ==
    LET r == read_text(file, readFails)
    IN  IF ~r.ok /\ r.cls = "FileNotFoundError" THEN Ok(EmptyText) ELSE r

\* SecretState.plain_secrets with its try/except: what the call returns or
\* raises
plain_secrets_result(file, readFails) ==
    LET r == read_text(file, readFails)
    IN  IF r.ok THEN r ELSE Ok(EmptyText)

\* SecretState.plain_secrets: a missing or unreadable file reads as ""
plain_secrets(file, readFails) == plain_secrets_result(file, readFails).val

\* mutant: run() asks the cluster again instead of the state's cache
Pull_run_refetching(c, listing, backend, file, fmt) ==
    LET plain == plain_secrets(file, FALSE)
        k     == kube_secrets(None, listing, backend)
    IN  IF ~k.res.ok THEN [ call |-> k, kube |-> None ]
        ELSE [ call |-> Call(k.cache, k.fetched, k.resolved,
                             Diff_pull(k.res.val, plain, fmt)),
               kube |-> k.res.val ]

\* Pull.run: Diff.pull reads the file, then the cluster, then normalizes;
\* kube is the cluster text handed to the diff
Pull_run(c, listing, backend, file, fmt) ==
    LET plain == plain_secrets(file, FALSE)
        k     == kube_secrets(c, listing, backend)
    IN  IF ~k.res.ok THEN [ call |-> k, kube |-> None ]
        ELSE [ call |-> Call(k.cache, k.fetched, k.resolved,
                             Diff_pull(k.res.val, plain, fmt)),
               kube |-> k.res.val ]

\* mutant: write() queries the cluster itself instead of asking the state
Pull_write_fresh(c, listing, backend, file) ==
    LET k == kube_secrets(None, listing, backend)
    IN  [ call |-> k, file |-> IF k.res.ok THEN k.res.val ELSE file ]

\* mutant: write() leaves a file alone that holds another export already
Pull_write_first_writer_wins(c, listing, backend, file) ==
    LET k == kube_secrets(c, listing, backend)
    IN  [ call |-> k,
          file |-> IF k.res.ok /\ file.syn # "json" THEN k.res.val ELSE file ]

\* mutant: write() opens the file for writing before it asks for the export
Pull_write_truncating_first(c, listing, backend, file) ==
    LET k == kube_secrets(c, listing, backend)
    IN  [ call |-> k, file |-> IF k.res.ok THEN k.res.val ELSE EmptyText ]

\* Pull.write: the new content of the plaintext file
Pull_write(c, listing, backend, file) ==
    LET k == kube_secrets(c, listing, backend)
    IN  [ call |-> k, file |-> IF k.res.ok THEN k.res.val ELSE file ]

-----------------------------------------------------------------------------
(* The environment of one invocation: what the cluster lists and what the  *)
(* operator keeps in the plaintext file.                                   *)

Rec(i, type, data) == RawRecord(ItemNames[i], type, data)

PwSecret == << << "password", "c2VjcmV0MTIz" >> >>

PwUser == << << "password", "bmV3MTIz" >>, << "username", "c2VjcmV0MTIz" >> >>

Token == << << "token", "dG9rZW4=" >> >>

BadPw == << << "password", "abc" >> >>

ClusterListings ==
    { NoItemsListing,
      NoneListing,
      Listing(<< >>),
      Listing(<< Rec(1, "Opaque", PwSecret) >>),
      Listing(<< Rec(1, "Opaque", PwUser),
                 Rec(2, "kubernetes.io/tls", Token) >>),
      Listing(<< Rec(1, NoType, PwSecret),
                 Rec(2, "example.com/custom", Token) >>),
      Listing(<< Rec(1, "kubernetes.io/dockerconfigjson", BadPw) >>),
      Listing(<< Rec(1, "kubernetes.io/service-account-token", PwSecret),
                 Rec(2, "Opaque", PwSecret) >>) }

LocalDocs ==
    { << SecretDict(ItemNames[1], << << "password", "secret123" >> >>,
                    "Opaque") >>,
      << SecretDict(ItemNames[1], << << "password", "new123" >> >>, NoType) >> }

\* what the operator may have put in the plaintext file
LocalTexts ==
    { Absent, BlankText, GarbageText }
    \cup { json_serialize_secrets(d) : d \in LocalDocs }
    \cup { yaml_serialize_secrets(d) : d \in LocalDocs }

Init ==
    /\ format \in Formats
    /\ cluster \in ClusterListings
    /\ plainFile \in LocalTexts
    /\ sealedFile = Absent
    /\ cache = None
    /\ fetchCount = 0
    /\ compared = None
    /\ last = LastNone
    /\ sealCalls = << >>
    /\ rawIn = None /\ secretsOut = None
    /\ kubeText = None /\ plainText = None /\ diffOut = None
    /\ invocations = None /\ history = << >>

Untouched ==
    << format, sealedFile, sealCalls, ClassifyVarsNoLast, DiffVars, RaceVars >>

\* a fetch is attempted only when the slot is empty; the attempts of one
\* instance are capped
MayCall(backend) ==
    IF cache = None THEN fetchCount < MaxFetch ELSE backend = "ok"

\* secret_state.kube_secrets()
KubeSecrets ==
    \E backend \in Backends :
       /\ MayCall(backend)
       /\ LET k == kube_secrets(cache, cluster, backend)
          IN  /\ cache' = k.cache
              /\ fetchCount' = fetchCount + k.fetched
              /\ last' = [ op |-> "kube_secrets", fetched |-> k.fetched,
                           res |-> k.res ]
       /\ UNCHANGED << cluster, plainFile, compared, Untouched >>

\* secret_state.get_forbidden_secrets()
GetForbiddenSecrets ==
    \E backend \in Backends :
       /\ MayCall(backend)
       /\ LET k == get_forbidden_secrets(cache, cluster, backend)
          IN  /\ cache' = k.cache
              /\ fetchCount' = fetchCount + k.fetched
              /\ last' = [ op |-> "get_forbidden_secrets",
                           fetched |-> k.fetched, res |-> k.res ]
       /\ UNCHANGED << cluster, plainFile, compared, Untouched >>

\* Pull(secret_state).run()
PullRun ==
    \E backend \in Backends :
       /\ MayCall(backend)
       /\ LET r == Pull_run(cache, cluster, backend, plainFile, format)
          IN  /\ cache' = r.call.cache
              /\ fetchCount' = fetchCount + r.call.fetched
              /\ last' = [ op |-> "Pull.run", fetched |-> r.call.fetched,
                           res |-> r.call.res ]
              /\ compared' = IF r.call.res.ok THEN r.kube ELSE compared
       /\ UNCHANGED << cluster, plainFile, Untouched >>

\* Pull(secret_state).write()
PullWrite ==
    \E backend \in Backends :
       /\ MayCall(backend)
       /\ LET w == Pull_write(cache, cluster, backend, plainFile)
          IN  /\ cache' = w.call.cache
              /\ fetchCount' = fetchCount + w.call.fetched
              /\ plainFile' = w.file
              /\ last' = [ op |-> "Pull.write", fetched |-> w.call.fetched,
                           res |-> IF w.call.res.ok THEN Ok(None)
                                   ELSE w.call.res ]
       /\ UNCHANGED << cluster, compared, Untouched >>

\* the cluster's secrets change after the instance fetched them (a change
\* before the fetch is another initial listing)
ClusterChange ==
    /\ cache # None
    /\ cluster' \in ClusterListings \ { cluster }
    /\ last' = [ op |-> "cluster changes" ]
    /\ UNCHANGED << plainFile, cache, fetchCount, compared, Untouched >>

\* the operator edits, creates or removes the plaintext file
EditPlain ==
    /\ plainFile' \in LocalTexts \ { plainFile }
    /\ last' = [ op |-> "operator edits" ]
    /\ UNCHANGED << cluster, cache, fetchCount, compared, Untouched >>

Next ==
    \/ KubeSecrets
    \/ GetForbiddenSecrets
    \/ PullRun
    \/ PullWrite
    \/ ClusterChange
    \/ EditPlain

Spec == Init /\ [][Next]_vars

DocNames(doc) == { doc[i].name : i \in DOMAIN doc }

DocValues(doc) ==
    UNION { { doc[i].data[k][2] : k \in DOMAIN doc[i].data } : i \in DOMAIN doc }

\* the plaintext values a raw record carries (those that decode)
PlainValues(raw) ==
    { b64decode(raw.data[k][2]).val :
        k \in { j \in DOMAIN raw.data : b64decode(raw.data[j][2]).ok } }

SeqRange(s) == { s[k] : k \in DOMAIN s }

\* the fetched records of a forbidden type, wherever the collection put them
ForbiddenFetched(c) ==
    { r \in SeqRange(c.items) \cup SeqRange(c.forbidden_secrets) :
        r.type \in FORBIDDEN_SECRET_TYPES }

ManageableFetched(c) ==
    { r \in SeqRange(c.items) : r.type \notin FORBIDDEN_SECRET_TYPES }

\* the document `text` spells names no forbidden record, and holds none of
\* the values that only forbidden records carry
KeepsForbiddenOut(text, c) ==
    \A r \in ForbiddenFetched(c) :
       /\ r.name \notin DocNames(text.doc)
       /\ (PlainValues(r) \ UNION { PlainValues(m) : m \in ManageableFetched(c) })
            \cap DocValues(text.doc) = {}

\* C2: whatever calls were made, the JSON kube_secrets() just returned and
\* the plaintext file Pull.write() just wrote name no fetched record of a
\* forbidden type and hold none of its data; those records are in the
\* forbidden list.
C2_ForbiddenNeverExported ==
    /\ (last.op = "kube_secrets" /\ last.res.ok) =>
          KeepsForbiddenOut(last.res.val, cache)
    /\ (last.op = "Pull.write" /\ last.res.ok) =>
          KeepsForbiddenOut(plainFile, cache)
    /\ cache # None =>
          \A r \in ForbiddenFetched(cache) :
             InSeq(r, cache.forbidden_secrets) /\ ~InSeq(r, cache.items)

\* Pull.write() wrote a file with a record while the fetched listing held a
\* forbidden record that carries a token
C2_Witness ==
    /\ last.op = "Pull.write" /\ last.res.ok
    /\ plainFile.doc # << >>
    /\ \E r \in ForbiddenFetched(cache) : "token" \in PlainValues(r)

\* C6 as stated: the cluster-listing collaborator is invoked at most once
\* per instance.
C6_FetchAtMostOncePerInstance == fetchCount <= 1

\* C6 amended: the collaborator is invoked only while the cache slot is
\* empty, at most once per call; once the slot holds a collection it is
\* kept, and no later call invokes the collaborator.
C6_FetchOnlyWhileCacheEmpty ==
    [][ /\ fetchCount' <= fetchCount + 1
        /\ fetchCount' # fetchCount => cache = None
        /\ cache # None => cache' = cache ]_vars

\* after a failed fetch and a successful one, a call was answered from the
\* cached collection
C6_Witness ==
    /\ fetchCount = 2
    /\ cache # None
    /\ last.op = "get_forbidden_secrets" /\ last.res.ok /\ last.fetched = 0

\* C7: after a successful Pull.write() the plaintext file is exactly the
\* canonical JSON of the cached collection, whatever it held before; when a
\* Pull.run() completed earlier on the state, write() succeeds without a
\* cluster call and the file is the cluster text run() compared against.
C7_WriteStoresCachedClusterText ==
    last.op = "Pull.write" =>
        /\ last.res.ok =>
             /\ cache # None
             /\ plainFile = to_json(cache).val
        /\ compared # None =>
             /\ last.res.ok
             /\ last.fetched = 0
             /\ plainFile = compared

\* write() ran after run() although the cluster now lists something else
C7_Witness ==
    /\ last.op = "Pull.write" /\ last.res.ok
    /\ compared # None /\ plainFile = compared
    /\ Secrets(cluster).ok
    /\ to_json(Secrets(cluster).val).ok
    /\ to_json(Secrets(cluster).val).val # plainFile

-----------------------------------------------------------------------------
(* seal.py: Seal.run.  failAt is the number of the KubeSeal.seal call that *)
(* fails in this run (0: none fails).  The result carries the calls made,  *)
(* in order, and the content of the sealed file after the run.             *)

\* SecretState.namespace, as tk status reported it
Namespace == "some-namespace"

\* what tk status printed when SecretState.from_path built the
\* TKEnvironment of the state: a status with both lines, a failure or no
\* output at all, or a status without its Context or its Namespace line
TkStatus == { "ok", "fails", "no context", "no namespace" }

\* TKEnvironment.__init__: only a failing tk status or an empty output
\* fails it; the Context and Namespace lines are looked up when they are
\* asked for
TKEnvironment(status) ==
    IF status = "fails" THEN Raise("TKSealError", "tk status") ELSE Ok(status)

\* SecretState.context, read from the TKEnvironment of the state
SecretState_context(status) ==
    IF status = "no context" THEN Raise("TKSealError", "Context not found")
    ELSE Ok("some-context")

\* SecretState.namespace, read from the TKEnvironment of the state
SecretState_namespace(status) ==
    IF status = "no namespace" THEN Raise("TKSealError", "Namespace not found")
    ELSE Ok(Namespace)

\* the arguments of KubeSeal.seal that Seal.kubeseal reads from the state,
\* context first
KubesealTarget(status) ==
    IF ~SecretState_context(status).ok THEN SecretState_context(status)
    ELSE SecretState_namespace(status)

\* what `kubeseal --raw` prints for one value
Ciphertext(name, value) ==
    "sealed(" \o Namespace \o "/" \o name \o ":" \o value \o ")"

\* mutant: the key is piped to kubeseal instead of the value
SealCall_key(name, key, value) == [ name |-> name, value |-> key ]

\* the arguments of self.kubeseal(name=secret["name"], value=value)
SealCall(name, key, value) == [ name |-> name, value |-> value ]

RECURSIVE SealPairs(_, _, _, _, _, _)
\* the inner loop of Seal.run over secret["data"].items(): Seal.kubeseal
\* reads the context and the namespace of the state, then calls
\* KubeSeal.seal
SealPairs(name, pairs, made, failAt, status, encrypted_data) ==
    IF pairs = << >>
    THEN [ ok |-> TRUE, what |-> "", made |-> made,
           encrypted_data |-> encrypted_data ]
    ELSE IF ~KubesealTarget(status).ok
    THEN [ ok |-> FALSE, what |-> KubesealTarget(status).what, made |-> made,
           encrypted_data |-> encrypted_data ]
    ELSE LET call == SealCall(name, Head(pairs)[1], Head(pairs)[2])
             now  == Append(made, call)
         IN  IF Len(now) = failAt
             THEN [ ok |-> FALSE, what |-> "kubeseal", made |-> now,
                    encrypted_data |-> encrypted_data ]
             ELSE SealPairs(name, Tail(pairs), now, failAt, status,
                    Append(encrypted_data,
                           << Head(pairs)[1],
                              Ciphertext(call.name, call.value) >>))

\* mutant: a record without a type is given the type Opaque
SealedSecret_default_type(secret, encrypted_data) ==
    [ kind |-> "SealedSecret",
      apiVersion |-> "bitnami.com/v1alpha1",
      metadata |-> [ name |-> secret.name, namespace |-> Namespace ],
      spec |-> [ template |->
                   [ metadata |-> [ name |-> secret.name,
                                    namespace |-> Namespace ],
                     type |-> IF secret.type = NoType THEN "Opaque"
                              ELSE secret.type ],
                 encryptedData |-> encrypted_data ] ]

\* the SealedSecret resource Seal.run builds for one record
SealedSecret(secret, encrypted_data) ==
    [ kind |-> "SealedSecret",
      apiVersion |-> "bitnami.com/v1alpha1",
      metadata |-> [ name |-> secret.name, namespace |-> Namespace ],
      spec |-> [ template |->
                   [ metadata |-> [ name |-> secret.name,
                                    namespace |-> Namespace ],
                     type |-> secret.type ],
                 encryptedData |-> encrypted_data ] ]

RECURSIVE SealSecrets(_, _, _, _, _)
\* the outer loop of Seal.run over plain_secrets; the resource of a record
\* is built with the namespace of the state
SealSecrets(plain_secrets_list, made, failAt, status, sealed_secrets) ==
    IF plain_secrets_list = << >>
    THEN [ ok |-> TRUE, what |-> "", made |-> made,
           sealed_secrets |-> sealed_secrets ]
    ELSE LET secret == Head(plain_secrets_list)
             e      == SealPairs(secret.name, secret.data, made, failAt,
                                 status, << >>)
         IN  IF ~e.ok
             THEN [ ok |-> FALSE, what |-> e.what, made |-> e.made,
                    sealed_secrets |-> sealed_secrets ]
             ELSE IF ~SecretState_namespace(status).ok
             THEN [ ok |-> FALSE, what |-> SecretState_namespace(status).what,
                    made |-> e.made, sealed_secrets |-> sealed_secrets ]
             ELSE SealSecrets(Tail(plain_secrets_list), e.made, failAt, status,
                    Append(sealed_secrets,
                           SealedSecret(secret, e.encrypted_data)))

SealOutcome(res, calls, file) == [ res |-> res, calls |-> calls, file |-> file ]

\* mutant: the resources sealed so far are written when a call fails
Seal_run_partial_write(plain_secrets_text, fmt, failAt, status, sealed_file) ==
    IF IsBlank(plain_secrets_text)
    THEN SealOutcome(Raise("TKSealError", "no plain secrets"), << >>,
                     sealed_file)
    ELSE LET parsed == deserialize_secrets(plain_secrets_text, fmt)
         IN  IF ~parsed.ok
             THEN SealOutcome(Raise("TKSealError", "invalid format"), << >>,
                              sealed_file)
             ELSE LET s == SealSecrets(parsed.val, << >>, failAt, status, << >>)
                  IN  SealOutcome(IF s.ok THEN Ok(None)
                                  ELSE Raise("TKSealError", s.what),
                                  s.made,
                                  serialize_secrets(s.sealed_secrets, fmt))

\* mutant: the emptiness check is skipped and the text goes to the parser
Seal_run_no_empty_check(plain_secrets_text, fmt, failAt, status, sealed_file) ==
    LET parsed == deserialize_secrets(plain_secrets_text, fmt)
    IN  IF ~parsed.ok
        THEN SealOutcome(Raise("TKSealError", "invalid format"), << >>,
                         sealed_file)
        ELSE IF parsed.val = NoneDoc
        THEN SealOutcome(Raise("TypeError", "NoneType is not iterable"),
                         << >>, sealed_file)
        ELSE LET s == SealSecrets(parsed.val, << >>, failAt, status, << >>)
             IN  IF ~s.ok
                 THEN SealOutcome(Raise("TKSealError", s.what),
                                  s.made, sealed_file)
                 ELSE SealOutcome(Ok(None), s.made,
                        serialize_secrets(s.sealed_secrets, fmt))

\* mutant: the parser's own exception leaves run() unwrapped
Seal_run_unwrapped_parse_error(plain_secrets_text, fmt, failAt, status, sealed_file) ==
    IF IsBlank(plain_secrets_text)
    THEN SealOutcome(Raise("TKSealError", "no plain secrets"), << >>,
                     sealed_file)
    ELSE LET parsed == deserialize_secrets(plain_secrets_text, fmt)
         IN  IF ~parsed.ok
             THEN SealOutcome(parsed, << >>, sealed_file)
             ELSE LET s == SealSecrets(parsed.val, << >>, failAt, status, << >>)
                  IN  IF ~s.ok
                      THEN SealOutcome(Raise("TKSealError", s.what),
                                       s.made, sealed_file)
                      ELSE SealOutcome(Ok(None), s.made,
                             serialize_secrets(s.sealed_secrets, fmt))

\* Seal.run
Seal_run(plain_secrets_text, fmt, failAt, status, sealed_file) ==
    IF IsBlank(plain_secrets_text)
    THEN SealOutcome(Raise("TKSealError", "no plain secrets"), << >>,
                     sealed_file)
    ELSE LET parsed == deserialize_secrets(plain_secrets_text, fmt)
         IN  IF ~parsed.ok
             THEN SealOutcome(Raise("TKSealError", "invalid format"), << >>,
                              sealed_file)
             ELSE LET s == SealSecrets(parsed.val, << >>, failAt, status, << >>)
                  IN  IF ~s.ok
                      THEN SealOutcome(Raise("TKSealError", s.what),
                                       s.made, sealed_file)
                      ELSE SealOutcome(Ok(None), s.made,
                             serialize_secrets(s.sealed_secrets, fmt))

\* documents the operator may seal: none, one record with two keys, two
\* records, a record without data
SealDocs ==
    { << >>,
      << SecretDict(ItemNames[1], << << "password", "new123" >>,
                                     << "username", "secret123" >> >>,
                    NoType) >>,
      << SecretDict(ItemNames[1], << << "password", "secret123" >> >>,
                    "Opaque"),
         SecretDict(ItemNames[2], << << "password", "new123" >>,
                                     << "token", "token" >> >>,
                    "kubernetes.io/dockerconfigjson") >>,
      << SecretDict(ItemNames[1], << >>, "Opaque"),
         SecretDict(ItemNames[2], << << "password", "secret123" >> >>,
                    NoType) >> }

SealTexts ==
    { Absent, BlankText, GarbageText }
    \cup { json_serialize_secrets(d) : d \in SealDocs }
    \cup { yaml_serialize_secrets(d) : d \in SealDocs }

\* a sealed file left by an earlier invocation
OldSealedFile ==
    json_serialize_secrets(
        << SealedSecret(SecretDict("old-secret", << >>, "Opaque"),
                        << << "password", "sealed(old)" >> >>) >>)

\* the most KubeSeal.seal calls a run of the model makes
MaxSealCalls == 3

InitSeal ==
    /\ format \in Formats
    /\ plainFile \in SealTexts
    /\ sealedFile \in { Absent, OldSealedFile }
    /\ sealCalls = << >>
    /\ last = LastNone
    /\ cluster = NoItemsListing
    /\ cache = None /\ fetchCount = 0 /\ compared = None
    /\ rawIn = None /\ secretsOut = None
    /\ kubeText = None /\ plainText = None /\ diffOut = None
    /\ invocations = None /\ history = << >>

\* Seal(secret_state).run()
SealRun ==
    \E failAt \in 0..MaxSealCalls, readFails \in BOOLEAN :
       LET read == plain_secrets_result(plainFile, readFails)
           r    == IF read.ok
                   THEN Seal_run(read.val, format, failAt, "ok", sealedFile)
                   ELSE SealOutcome(read, << >>, sealedFile)
       IN  /\ sealedFile' = r.file
           /\ sealCalls' = r.calls
           /\ last' = [ op |-> "Seal.run", res |-> r.res, failAt |-> failAt,
                        before |-> sealedFile, read |-> read.val ]
           /\ UNCHANGED << format, plainFile, cluster, cache, fetchCount,
                           compared, ClassifyVarsNoLast, DiffVars, RaceVars >>

\* the operator replaces the plaintext file between two runs
EditPlainForSeal ==
    /\ last.op = "Seal.run"
    /\ plainFile' \in SealTexts \ { plainFile }
    /\ last' = [ op |-> "operator edits" ]
    /\ UNCHANGED << format, sealedFile, sealCalls, cluster, cache, fetchCount,
                    compared, ClassifyVarsNoLast, DiffVars, RaceVars >>

\* secret_state.plain_secrets(), called on its own
PlainSecrets ==
    \E readFails \in BOOLEAN :
       /\ last' = [ op |-> "plain_secrets", readFails |-> readFails,
                    res |-> plain_secrets_result(plainFile, readFails) ]
       /\ UNCHANGED << format, plainFile, sealedFile, sealCalls, cluster,
                       cache, fetchCount, compared, ClassifyVarsNoLast,
                       DiffVars, RaceVars >>

NextSeal == SealRun \/ EditPlainForSeal \/ PlainSecrets

SpecSeal == InitSeal /\ [][NextSeal]_vars

\* the key/value pairs of a document, records in file order, keys in record
\* order, each with the owning record's name
RECURSIVE PairsInOrder(_)
PairsInOrder(doc) ==
    IF doc = << >> THEN << >>
    ELSE [ k \in DOMAIN Head(doc).data |->
             [ name |-> Head(doc).name, value |-> Head(doc).data[k][2] ] ]
         \o PairsInOrder(Tail(doc))

\* the document Seal.run read in the run `last` describes
SealedDoc == deserialize_secrets(last.read, format).val

SealRunParsed ==
    /\ last.op = "Seal.run"
    /\ ~IsBlank(last.read)
    /\ deserialize_secrets(last.read, format).ok

\* C4: a run that rewrote the sealed file made one successful backend call
\* for every pair of every record; a run in which a backend call failed
\* raised that error, made no call after the failing one, and left the
\* sealed file with the content it had before the run.
C4_SealWritesOnlyAfterAllPairs ==
    last.op = "Seal.run" =>
        /\ sealedFile # last.before =>
             /\ last.res.ok
             /\ Len(sealCalls) = Len(PairsInOrder(SealedDoc))
        /\ (SealRunParsed /\ last.failAt \in 1..Len(PairsInOrder(SealedDoc))) =>
             /\ ~last.res.ok
             /\ last.res.cls = "TKSealError" /\ last.res.what = "kubeseal"
             /\ Len(sealCalls) = last.failAt
             /\ sealedFile = last.before
        /\ ~last.res.ok => sealedFile = last.before

\* the second of three backend calls failed and an existing sealed file
\* was left as it was
C4_Witness ==
    /\ SealRunParsed
    /\ last.failAt = 2 /\ ~last.res.ok
    /\ Len(PairsInOrder(SealedDoc)) = 3
    /\ Len(sealCalls) = 2
    /\ sealedFile = OldSealedFile

\* C5: the backend calls of a run are the pairs of the document, records in
\* file order and keys in record order, each with the record's name and the
\* pair's plaintext value: all of them in a successful run, and the pairs
\* up to the failing call otherwise.
C5_OneBackendCallPerPair ==
    SealRunParsed =>
        LET pairs == PairsInOrder(SealedDoc)
        IN  /\ last.res.ok =>
                 /\ sealCalls = pairs
                 /\ Len(sealCalls) = Len(pairs)
            /\ ~last.res.ok =>
                 /\ Len(sealCalls) <= Len(pairs)
                 /\ sealCalls = SubSeq(pairs, 1, Len(sealCalls))

\* one record with two keys was sealed with exactly two backend calls
C5_Witness ==
    /\ SealRunParsed /\ last.res.ok
    /\ Len(SealedDoc) = 1
    /\ Len(SealedDoc[1].data) = 2
    /\ Len(sealCalls) = 2
    /\ sealCalls[1] = [ name |-> "app-secret", value |-> "new123" ]
    /\ sealCalls[2] = [ name |-> "app-secret", value |-> "secret123" ]

-----------------------------------------------------------------------------
(* cli.py: the diff, pull and seal commands, each one invocation of the    *)
(* program with a SecretState of its own.  status is what tk status prints *)
(* for the environment during the invocation, confirm is the operator's    *)
(* answer should click.confirm ask.  The outcome of a command counts the   *)
(* tk status and kubectl invocations and the reads of the plaintext file   *)
(* it made.                                                                *)

\* what the `except TKSealError` clause makes of a raised error: any other
\* class leaves the command as a traceback
CommandFailed(res, file, sealed, calls) ==
    [ exit |-> 1,
      echoed |-> IF res.cls = "TKSealError" THEN << "Error: " \o res.what >>
                 ELSE << "Traceback: " \o res.cls >>,
      diffComputed |-> FALSE, has_differences |-> FALSE,
      prompted |-> FALSE, confirmed |-> FALSE, acted |-> FALSE,
      file |-> file, sealed |-> sealed, calls |-> calls, raised |-> res,
      tk_status |-> 0, kubectl |-> 0, plain_reads |-> 0 ]

CommandDone(echoed, diffComputed, has_differences, prompted, confirmed, acted, file, sealed, calls) ==
    [ exit |-> 0, echoed |-> echoed,
      diffComputed |-> diffComputed, has_differences |-> has_differences,
      prompted |-> prompted, confirmed |-> confirmed, acted |-> acted,
      file |-> file, sealed |-> sealed, calls |-> calls, raised |-> Ok(None),
      tk_status |-> 0, kubectl |-> 0, plain_reads |-> 0 ]

\* the outcome o of the rest of a command, after a step that ran tk status
\* tk times, kubectl `fetched` times and read the plaintext file `reads`
\* times
After(o, tk, fetched, reads) ==
    [ o EXCEPT !.tk_status = @ + tk, !.kubectl = @ + fetched,
               !.plain_reads = @ + reads ]

\* the lines the pull command prints before the diff
PullPreamble(forbidden) ==
    (IF forbidden = << >> THEN << >> ELSE << "forbidden secrets warning" >>)
    \o << "This shows how the file would change" >>

\* mutant: the file is written whatever the diff and the operator say
Cmd_pull_ungated(listing, backend, file, fmt, status, confirm) ==
    IF ~TKEnvironment(status).ok
    THEN After(CommandFailed(TKEnvironment(status), file, Absent, << >>),
               1, 0, 0)
    ELSE LET first == Pull_run(None, listing, backend, file, fmt)
         IN  IF ~first.call.res.ok
             THEN After(CommandFailed(first.call.res, file, Absent, << >>),
                        1 + first.call.resolved, first.call.fetched, 1)
             ELSE LET w == Pull_write(first.call.cache, listing, backend, file)
                  IN  After(CommandDone(<< "Successfully pulled secrets" >>,
                                        TRUE,
                                        first.call.res.val.has_differences,
                                        FALSE, FALSE, TRUE, w.file, Absent,
                                        << >>),
                            1 + first.call.resolved, first.call.fetched, 1)

\* the value of a step of a command, computed once: the one element of S
Only(S) == CHOOSE r \in S : TRUE

\* the pull command after Pull.write
PullWritten(w, preamble, file) ==
    After(IF ~w.call.res.ok
          THEN CommandFailed(w.call.res, file, Absent, << >>)
          ELSE CommandDone(preamble
                             \o << "diff", "Successfully pulled secrets" >>,
                           TRUE, TRUE, TRUE, TRUE, TRUE, w.file, Absent,
                           << >>),
          w.call.resolved, w.call.fetched, 0)

\* the pull command from the second Pull(secret_state).run() on
PullShowAndWrite(result, preamble, listing, backend, file, confirm) ==
    After(IF ~result.call.res.ok
          THEN CommandFailed(result.call.res, file, Absent, << >>)
          ELSE IF result.call.res.val.has_differences
          THEN IF confirm
               THEN Only({ PullWritten(w, preamble, file) :
                             w \in { Pull_write(result.call.cache, listing,
                                                backend, file) } })
               ELSE CommandDone(preamble \o << "diff" >>,
                                TRUE, TRUE, TRUE, FALSE, FALSE,
                                file, Absent, << >>)
          ELSE CommandDone(preamble \o << "No differences" >>,
                           TRUE, FALSE, FALSE, FALSE, FALSE,
                           file, Absent, << >>),
          result.call.resolved, result.call.fetched, 1)

\* the pull command from secret_state.get_forbidden_secrets() on
PullWarnAndRun(forbidden, listing, backend, file, fmt, confirm) ==
    After(Only({ PullShowAndWrite(result, PullPreamble(forbidden.res.val),
                                  listing, backend, file, confirm) :
                   result \in { Pull_run(forbidden.cache, listing, backend,
                                         file, fmt) } }),
          forbidden.resolved, forbidden.fetched, 0)

\* the pull command after the first Pull(secret_state).run()
PullAfterFirstRun(first, listing, backend, file, fmt, confirm) ==
    After(IF ~first.call.res.ok
          THEN CommandFailed(first.call.res, file, Absent, << >>)
          ELSE Only({ PullWarnAndRun(forbidden, listing, backend, file, fmt,
                                     confirm) :
                        forbidden \in { get_forbidden_secrets(
                                          first.call.cache, listing,
                                          backend) } }),
          first.call.resolved, first.call.fetched, 1)

\* the pull command: SecretState.from_path, then Pull
Cmd_pull(listing, backend, file, fmt, status, confirm) ==
    After(IF ~TKEnvironment(status).ok
          THEN CommandFailed(TKEnvironment(status), file, Absent, << >>)
          ELSE Only({ PullAfterFirstRun(first, listing, backend, file, fmt,
                                        confirm) :
                        first \in { Pull_run(None, listing, backend, file,
                                             fmt) } }),
          1, 0, 0)

\* the seal command after Seal.run, which read the plaintext file
SealRan(r, file) ==
    After(IF ~r.res.ok
          THEN [ CommandFailed(r.res, file, r.file, r.calls)
                   EXCEPT !.prompted = TRUE, !.confirmed = TRUE,
                          !.acted = TRUE ]
          ELSE CommandDone(<< "Successfully sealed secrets" >>,
                           FALSE, FALSE, TRUE, TRUE, TRUE,
                           file, r.file, r.calls),
          0, 0, 1)

\* the seal command: the preview of the diff is commented out in the
\* source, so the command goes straight to click.confirm
Cmd_seal(file, sealed, fmt, status, confirm, failAt) ==
    After(IF ~TKEnvironment(status).ok
          THEN CommandFailed(TKEnvironment(status), file, sealed, << >>)
          ELSE IF confirm
          THEN Only({ SealRan(r, file) :
                        r \in { Seal_run(plain_secrets(file, FALSE), fmt,
                                         failAt, status, sealed) } })
          ELSE CommandDone(<< >>, FALSE, FALSE, TRUE, FALSE, FALSE,
                           file, sealed, << >>),
          1, 0, 0)

\* the diff command once Diff.plain() returned or raised
DiffShown(result, file) ==
    IF ~result.ok THEN CommandFailed(result, file, Absent, << >>)
    ELSE IF result.val.has_differences
    THEN CommandDone(<< "diff" >>, TRUE, TRUE, FALSE, FALSE, FALSE,
                     file, Absent, << >>)
    ELSE CommandDone(<< "No differences" >>, TRUE, FALSE, FALSE, FALSE, FALSE,
                     file, Absent, << >>)

\* the diff command after secret_state.kube_secrets() inside Diff.plain(),
\* which reads the plaintext file next
DiffAfterFetch(k, file, fmt) ==
    IF ~k.res.ok
    THEN After(CommandFailed(k.res, file, Absent, << >>),
               k.resolved, k.fetched, 0)
    ELSE After(Only({ DiffShown(result, file) :
                        result \in { Diff_plain(k.res.val,
                                                plain_secrets(file, FALSE),
                                                fmt) } }),
               k.resolved, k.fetched, 1)

\* the diff command: SecretState.from_path, then Diff.plain
Cmd_diff(listing, backend, file, fmt, status) ==
    After(IF ~TKEnvironment(status).ok
          THEN CommandFailed(TKEnvironment(status), file, Absent, << >>)
          ELSE Only({ DiffAfterFetch(k, file, fmt) :
                        k \in { kube_secrets(None, listing, backend) } }),
          1, 0, 0)

CommandVars ==
    << cache, fetchCount, compared, ClassifyVarsNoLast, DiffVars, RaceVars >>

InitCli ==
    /\ format \in Formats
    /\ cluster \in ClusterListings
    /\ plainFile \in LocalTexts
    /\ sealedFile = Absent
    /\ sealCalls = << >>
    /\ last = LastNone
    /\ cache = None /\ fetchCount = 0 /\ compared = None
    /\ rawIn = None /\ secretsOut = None
    /\ kubeText = None /\ plainText = None /\ diffOut = None
    /\ invocations = None /\ history = << >>

\* what the backends do during the cluster fetch of an invocation whose
\* environment prints `status`: the status seen by SecretState.from_path is
\* the one Secrets.for_tk_env sees, unless tk or kubectl fails meanwhile
FetchBackends(status) ==
    CASE status = "ok" -> { "ok", "tk fails", "kubectl fails" }
      [] status = "fails" -> { "tk fails" }
      [] OTHER -> { status }

\* tkseal pull PATH --format FORMAT
CmdPull ==
    \E status \in TkStatus, confirm \in BOOLEAN :
       \E backend \in FetchBackends(status) :
          \E o \in { Cmd_pull(cluster, backend, plainFile, format, status,
                               confirm) } :
              /\ plainFile' = o.file
              /\ last' = [ op |-> "tkseal pull", out |-> o,
                           before |-> plainFile, status |-> status ]
              /\ UNCHANGED << format, cluster, sealedFile, sealCalls,
                              CommandVars >>

\* tkseal seal PATH --format FORMAT
CmdSeal ==
    \E status \in TkStatus, confirm \in BOOLEAN, failAt \in 0..1 :
       \E o \in { Cmd_seal(plainFile, sealedFile, format, status, confirm,
                            failAt) } :
           /\ sealedFile' = o.sealed
           /\ sealCalls' = o.calls
           /\ last' = [ op |-> "tkseal seal", out |-> o,
                        before |-> sealedFile, status |-> status ]
           /\ UNCHANGED << format, cluster, plainFile, CommandVars >>

\* tkseal diff PATH --format FORMAT
CmdDiff ==
    \E status \in TkStatus :
       \E backend \in FetchBackends(status) :
          \E o \in { Cmd_diff(cluster, backend, plainFile, format, status) } :
              /\ last' = [ op |-> "tkseal diff", out |-> o,
                           before |-> plainFile, status |-> status ]
              /\ UNCHANGED << format, cluster, plainFile, sealedFile,
                              sealCalls, CommandVars >>

NextCli == CmdPull \/ CmdSeal \/ CmdDiff

SpecCli == InitCli /\ [][NextCli]_vars

\* C8: a pull command that wrote the plaintext file had found differences,
\* asked the operator and was told yes; one that found no differences
\* printed "No differences", asked nothing and left the file alone; one
\* whose operator declined left the file alone.
C8_PullWritesOnlyWhenConfirmed ==
    last.op = "tkseal pull" =>
        LET o == last.out
        IN  /\ (o.acted \/ plainFile # last.before) =>
                 /\ o.diffComputed /\ o.has_differences
                 /\ InSeq("diff", o.echoed)
                 /\ o.prompted /\ o.confirmed
            /\ (o.diffComputed /\ ~o.has_differences) =>
                 /\ InSeq("No differences", o.echoed)
                 /\ ~o.prompted /\ ~o.acted
                 /\ plainFile = last.before
            /\ (o.prompted /\ ~o.confirmed) =>
                 /\ ~o.acted /\ plainFile = last.before

\* the operator confirmed a pull that showed differences and the file now
\* holds other content than before
C8_Witness ==
    /\ last.op = "tkseal pull"
    /\ last.out.has_differences /\ last.out.prompted /\ last.out.confirmed
    /\ last.out.acted
    /\ plainFile # last.before

\* what Diff.plain reports for the cluster and the plaintext file as they are
PlainDiffNow ==
    LET secrets == Secrets(cluster)
        kube    == IF secrets.ok THEN to_json(secrets.val) ELSE secrets
    IN  IF ~kube.ok THEN kube
        ELSE Diff_plain(kube.val, plain_secrets(plainFile, FALSE), format)

\* C9: a seal command that called Seal.run had computed and shown the
\* plain-mode diff, found differences and been told yes by the operator;
\* when the diff reports no differences the command prints "No
\* differences", asks nothing and seals nothing; when the operator declines
\* Seal.run is not called.
C9_SealRunsOnlyAfterDiffAndConfirmation ==
    last.op = "tkseal seal" =>
        LET o == last.out
        IN  /\ o.acted =>
                 /\ o.diffComputed /\ o.has_differences
                 /\ o.prompted /\ o.confirmed
            /\ (o.exit = 0 /\ PlainDiffNow.ok
                  /\ ~PlainDiffNow.val.has_differences) =>
                 /\ InSeq("No differences", o.echoed)
                 /\ ~o.prompted /\ ~o.acted
            /\ (o.prompted /\ ~o.confirmed) => ~o.acted

-----------------------------------------------------------------------------
(* Claims on the diff study, continued.                                    *)

\* the lines of the two normalized texts Diff compares in the study
KubeLines == splitlines(normalize_to_json(kubeText, "json").val)

PlainLines == splitlines(normalize_to_json(plainText, format).val)

\* has_differences and diff_output of one result agree with the operands
DiffTellsTheTruth(res) ==
    (res # None /\ res.ok) =>
        /\ res.val.has_differences
             <=> (get_grouped_opcodes(KubeLines, PlainLines) # << >>)
        /\ res.val.has_differences <=> (KubeLines # PlainLines)
        /\ (res.val.diff_output = << >>) <=> ~res.val.has_differences

\* C11: for every pair of operands, has_differences of Diff.plain() and of
\* Diff.pull() is true iff the unified diff of the normalized texts has at
\* least one hunk, which is so iff the normalized texts are not identical;
\* diff_output is empty exactly when has_differences is false.
C11_HasDifferencesIffTextsDiffer ==
    /\ DiffTellsTheTruth(diffOut.plain)
    /\ DiffTellsTheTruth(diffOut.pull)

\* both modes reported differences, with a hunk, between two texts that
\* differ
C11_Witness ==
    /\ diffOut.plain # None /\ diffOut.plain.ok
    /\ diffOut.pull # None /\ diffOut.pull.ok
    /\ KubeLines # PlainLines
    /\ diffOut.plain.val.has_differences /\ diffOut.pull.val.has_differences
    /\ Len(diffOut.plain.val.diff_output) > 3

\* both modes ran and returned a result
BothModesRan ==
    /\ diffOut.plain # None /\ diffOut.plain.ok
    /\ diffOut.pull # None /\ diffOut.pull.ok

\* the content lines of the two normalized texts
ComparedLines == SeqRange(KubeLines) \cup SeqRange(PlainLines)

PlainOut == diffOut.plain.val.diff_output

PullOut == diffOut.pull.val.diff_output

\* C12 as stated: the two modes agree on has_differences and every content
\* line marked '+' by one mode is marked '-' by the other, and vice versa.
C12_ModesMirrorMarkedLines ==
    BothModesRan =>
        /\ diffOut.plain.val.has_differences = diffOut.pull.val.has_differences
        /\ \A l \in ComparedLines :
             /\ InSeq("+" \o l, PlainOut) <=> InSeq("-" \o l, PullOut)
             /\ InSeq("-" \o l, PlainOut) <=> InSeq("+" \o l, PullOut)

\* C12, amended: the two modes agree on has_differences, their from/to
\* labels are swapped, and the net change of every content line is
\* mirrored: the number of times a line is added minus the number of times
\* it is removed in one mode is the number of times it is removed minus
\* the number of times it is added in the other.  Which occurrences are
\* marked is the line matcher's choice and need not mirror.
C12_ModesMirrorNetChange ==
    BothModesRan =>
        /\ diffOut.plain.val.has_differences = diffOut.pull.val.has_differences
        /\ diffOut.plain.val.has_differences =>
             /\ PlainOut[1] = "--- cluster"
             /\ PlainOut[2] = "+++ " \o PlainLabel(format)
             /\ PullOut[1] = "--- " \o PlainLabel(format)
             /\ PullOut[2] = "+++ cluster"
        /\ \A l \in ComparedLines :
             Occurrences("+" \o l, PlainOut) - Occurrences("-" \o l, PlainOut)
               = Occurrences("-" \o l, PullOut) - Occurrences("+" \o l, PullOut)

\* both modes reported differences and plain marks a line as added that
\* pull does not mark as removed
C12_Witness ==
    /\ BothModesRan
    /\ diffOut.plain.val.has_differences /\ diffOut.pull.val.has_differences
    /\ \E l \in ComparedLines :
         InSeq("+" \o l, PlainOut) /\ ~InSeq("-" \o l, PullOut)

-----------------------------------------------------------------------------
(* Claims on Seal.run and on the reads of the plaintext file, continued.   *)

\* C13: plain_secrets() never raises: it returns the empty string when the
\* plaintext file is missing or the read fails, and the content of the file
\* unchanged otherwise.
C13_PlainSecretsNeverRaises ==
    last.op = "plain_secrets" =>
        /\ last.res.ok
        /\ (plainFile = Absent \/ last.readFails) => last.res.val = EmptyText
        /\ (plainFile # Absent /\ ~last.readFails) => last.res.val = plainFile

\* a file that exists and holds a document could not be read, and the call
\* returned the empty string
C13_Witness ==
    /\ last.op = "plain_secrets"
    /\ last.readFails /\ plainFile # Absent /\ plainFile.doc # << >>
    /\ last.res.ok /\ last.res.val = EmptyText

\* C14: Seal.run() on an empty plaintext document (empty or whitespace-only
\* text, which an absent or unreadable file also yields) raises the
\* TKSealError that tells the operator to create the file or pull first,
\* makes no backend call and leaves the sealed file as it was.
C14_SealEmptyPlaintextFails ==
    (last.op = "Seal.run" /\ last.read \in { EmptyText, BlankText }) =>
        /\ ~last.res.ok
        /\ last.res.cls = "TKSealError" /\ last.res.what = "no plain secrets"
        /\ sealCalls = << >>
        /\ sealedFile = last.before

\* a run on a whitespace-only file failed and left an existing sealed file
\* in place
C14_Witness ==
    /\ last.op = "Seal.run"
    /\ plainFile = BlankText /\ last.read = BlankText
    /\ ~last.res.ok /\ last.res.what = "no plain secrets"
    /\ sealedFile = OldSealedFile

IsSealedFormOf(resource, record) ==
    /\ resource.kind = "SealedSecret"
    /\ resource.apiVersion = "bitnami.com/v1alpha1"
    /\ resource.metadata = [ name |-> record.name, namespace |-> Namespace ]
    /\ resource.spec.template.metadata
         = [ name |-> record.name, namespace |-> Namespace ]
    /\ resource.spec.template.type = record.type
    /\ Len(resource.spec.encryptedData) = Len(record.data)
    /\ \A k \in DOMAIN record.data :
         /\ resource.spec.encryptedData[k][1] = record.data[k][1]
         /\ resource.spec.encryptedData[k][2]
              = Ciphertext(record.name, record.data[k][2])

\* C16: after a successful Seal.run() the sealed file holds, in the
\* configured encoding, one resource per plaintext record in the same order
\* (the empty array for "[]"), each the SealedSecret of its record, with
\* spec.template.type equal to the record's type when it has one and absent
\* otherwise.
C16_SealedFileMirrorsRecords ==
    (last.op = "Seal.run" /\ last.res.ok) =>
        /\ sealedFile = serialize_secrets(sealedFile.doc, format)
        /\ Len(sealedFile.doc) = Len(SealedDoc)
        /\ \A i \in DOMAIN SealedDoc :
             IsSealedFormOf(sealedFile.doc[i], SealedDoc[i])

\* two records were sealed, one of them without a type
C16_Witness ==
    /\ last.op = "Seal.run" /\ last.res.ok
    /\ Len(SealedDoc) = 2 /\ Len(sealedFile.doc) = 2
    /\ \E i \in 1..2 : SealedDoc[i].type = NoType
    /\ \E i \in 1..2 : SealedDoc[i].type # NoType
    /\ Len(sealCalls) > 0

-----------------------------------------------------------------------------
(* Claims on the commands, continued.                                      *)

Commands == { "tkseal diff", "tkseal pull", "tkseal seal" }

\* C17: every failure of the diff, pull and seal commands reaches the
\* command as a TKSealError, which it reports as "Error: <message>" with
\* exit code 1; no other exception type escapes.
C17_OnlyTKSealErrorEscapes ==
    (last.op \in Commands /\ ~last.out.raised.ok) =>
        /\ last.out.raised.cls = "TKSealError"
        /\ last.out.echoed = << "Error: " \o last.out.raised.what >>
        /\ last.out.exit = 1

-----------------------------------------------------------------------------
(* Claims on the SecretState instance, continued.                          *)

\* the call went to the cluster and the listing it got has no items entry
FetchedListingWithoutItems ==
    /\ last.op \in { "kube_secrets", "get_forbidden_secrets", "Pull.run",
                     "Pull.write" }
    /\ last.fetched = 1
    /\ ~cluster.hasItems

\* C18: building the collection from a listing without an items entry, an
\* empty or non-mapping listing included, fails with TKSealError and
\* yields no collection, so the cache of the state stays empty.
C18_NoItemsIsTKSealError ==
    FetchedListingWithoutItems =>
        /\ ~last.res.ok
        /\ last.res.cls = "TKSealError"
        /\ cache = None

-----------------------------------------------------------------------------
(* Claims on the classification study, continued.                          *)

\* payloads of the model that are not valid base64
InvalidBase64 == { "abc", "####" }

\* the keys of a raw record whose value is not valid base64
InvalidKeys(raw) ==
    { raw.data[k][1] : k \in { j \in DOMAIN raw.data :
                                 raw.data[j][2] \in InvalidBase64 } }

\* the message of a decode error that names the record and the key
DecodeErrorNaming(name, key) ==
    "cannot decode " \o key \o " of " \o name

\* C19: reading the data of a manageable record that holds a value that is
\* not valid base64 fails with a decode error that names the record and the
\* offending key, and returns no list of plaintext pairs.
C19_DecodeErrorNamesRecordAndKey ==
    (last.op = "Secret.data" /\ InvalidKeys(last.raw) # { }) =>
        /\ ~last.res.ok
        /\ \E key \in InvalidKeys(last.raw) :
             last.res.what = DecodeErrorNaming(last.raw.name, key)

\* C20: a raw record without a type key is classified as a record of type
\* Opaque is: it is in the manageable list, once, and not in the forbidden
\* list, and it is not dropped.
C20_UntypedRecordIsManageable ==
    (secretsOut # None /\ secretsOut.ok) =>
        \A i \in DOMAIN rawIn.items :
           rawIn.items[i].type = NoType =>
              /\ Bucket(rawIn.items[i], secretsOut.val) = { "manageable" }
              /\ Occurrences(rawIn.items[i], secretsOut.val.items) = 1
              /\ "Opaque" \in allowed_types

\* a listing with an untyped record next to a forbidden one was classified
C20_Witness ==
    /\ secretsOut # None /\ secretsOut.ok
    /\ Len(rawIn.items) = 2
    /\ rawIn.items[1].type \in FORBIDDEN_SECRET_TYPES
    /\ rawIn.items[2].type = NoType
    /\ rawIn.items[2].data # << >>
    /\ Len(secretsOut.val.items) = 1
    /\ secretsOut.val.items[1] = rawIn.items[2]

-----------------------------------------------------------------------------
(* Encoding study: one secret set D kept in two environments, in           *)
(* plain_secrets.yaml as YAMLSerializer writes it and in                   *)
(* plain_secrets.json as JSONSerializer writes it; Diff.plain() and        *)
(* Diff.pull() run in each against the same cluster text.                  *)

\* the records the secret sets of the study are made of, for the i-th name:
\* values that a plain YAML scalar would spell as an int, a bool or null
EncodingPool(i) ==
    { SecretDict(ItemNames[i], << << "password", "secret123" >> >>, "Opaque"),
      SecretDict(ItemNames[i], << << "password", "123" >>,
                                  << "enabled", "true" >> >>, ""),
      SecretDict(ItemNames[i], << << "password", "" >> >>, NoType) }

EncodingDocs ==
    UNION { { d \in [1..n -> UNION { EncodingPool(i) : i \in 1..n }] :
                \A i \in 1..n : d[i] \in EncodingPool(i) }
            : n \in 0..MaxItems }

\* texts kube_secrets() answers in the study
EncodingKubeTexts ==
    { json_serialize_secrets(d) :
        d \in { e \in EncodingDocs :
                  \A i \in DOMAIN e : e[i].data[1][2] = "secret123" } }
    \cup { EmptyText,
           json_serialize_secrets(
               << SecretDict(ItemNames[1], << << "password", "123" >> >>,
                             "Opaque") >>) }

EncodingNone == [ json |-> DiffNone, yaml |-> DiffNone ]

InitEncoding ==
    /\ kubeText \in EncodingKubeTexts
    /\ \E D \in EncodingDocs :
         plainText = [ json |-> serialize_secrets(D, "json"),
                       yaml |-> serialize_secrets(D, "yaml") ]
    /\ format = "json"
    /\ diffOut = EncodingNone
    /\ rawIn = None /\ secretsOut = None /\ last = LastNone
    /\ cluster = NoItemsListing
    /\ plainFile = None /\ sealedFile = None /\ cache = None
    /\ fetchCount = 0 /\ sealCalls = << >> /\ compared = None
    /\ invocations = None /\ history = << >>

\* Diff(secret_state).plain() in the environment kept with --format fmt
EncodingDiffPlain ==
    \E fmt \in Formats :
       /\ diffOut[fmt].plain = None
       /\ format' = fmt
       /\ diffOut' = [ diffOut EXCEPT
                         ![fmt].plain = Diff_plain(kubeText, plainText[fmt],
                                                   fmt) ]
       /\ UNCHANGED << kubeText, plainText, ClassifyVars, StateVars >>

\* Diff(secret_state).pull() in the environment kept with --format fmt
EncodingDiffPull ==
    \E fmt \in Formats :
       /\ diffOut[fmt].pull = None
       /\ format' = fmt
       /\ diffOut' = [ diffOut EXCEPT
                         ![fmt].pull = Diff_pull(kubeText, plainText[fmt],
                                                 fmt) ]
       /\ UNCHANGED << kubeText, plainText, ClassifyVars, StateVars >>

NextEncoding == EncodingDiffPlain \/ EncodingDiffPull

SpecEncoding == InitEncoding /\ [][NextEncoding]_vars

\* the lines of a diff after its two file-name lines
Hunks(result) ==
    IF result.diff_output = << >> THEN << >>
    ELSE SubSeq(result.diff_output, 3, Len(result.diff_output))

\* two results are the same but for the name of the local file
SameUpToLabel(y, j) ==
    /\ y.ok /\ j.ok
    /\ y.val.has_differences = j.val.has_differences
    /\ Len(y.val.diff_output) = Len(j.val.diff_output)
    /\ Hunks(y.val) = Hunks(j.val)

-----------------------------------------------------------------------------
(* Claims on the resolution of the environment by the commands.            *)

\* C22 as stated: from SecretState.from_path() to the end of a diff, pull
\* or seal invocation, tk status is invoked exactly once.
C22_ResolvedExactlyOnce ==
    last.op \in Commands => last.out.tk_status = 1

\* C22, amended: SecretState.from_path() invokes tk status once, and every
\* cluster fetch the state starts invokes it once more: a seal invocation,
\* and an invocation whose from_path() failed, invoke it exactly once; a
\* diff or pull invocation that got past from_path() invokes it exactly
\* twice, for its one cluster fetch, which calls kubectl at most once.
C22_ResolvedOncePlusOncePerFetch ==
    last.op \in Commands =>
        /\ last.out.tk_status =
             IF last.op = "tkseal seal" \/ last.status = "fails" THEN 1 ELSE 2
        /\ last.out.kubectl <= 1
        /\ last.out.kubectl > 0 => last.out.tk_status = 2

\* a pull invocation fetched the cluster once, wrote the plaintext file and
\* had invoked tk status twice
C22_Witness ==
    /\ last.op = "tkseal pull"
    /\ last.out.exit = 0 /\ last.out.acted
    /\ plainFile # last.before
    /\ last.out.kubectl = 1
    /\ last.out.tk_status = 2

\* C23: when tk status fails, or prints a status without a context or
\* without a namespace, SecretState.from_path() fails with the user-facing
\* error: the command ends with "Error: ..." and exit code 1, the plaintext
\* file is not read, neither kubectl nor kubeseal is called, no file is
\* written, and tk status is not invoked again.
C23_ResolutionFailureIsFatal ==
    (last.op \in Commands /\ last.status # "ok") =>
        /\ last.out.exit = 1
        /\ ~last.out.raised.ok /\ last.out.raised.cls = "TKSealError"
        /\ last.out.plain_reads = 0
        /\ last.out.kubectl = 0
        /\ last.out.calls = << >>
        /\ last.out.tk_status = 1
        /\ plainFile = last.out.file /\ ~last.out.acted

-----------------------------------------------------------------------------
(* Claims on trailing blank lines in the operands of the diff.             *)

\* the two texts denote the same secret set and differ only in what
\* follows the last line: trailing newlines, or whitespace after nothing
TrailingOnly(k, p) ==
    \/ /\ k.syn = "json" /\ p.syn = "json"
       /\ k.style = p.style /\ k.doc = p.doc
       /\ k.trail # p.trail
    \/ /\ k \in { EmptyText, BlankText } /\ p \in { EmptyText, BlankText }
       /\ k # p

\* C24 as stated: whatever the invocation at hand, there are two operand
\* texts that denote the same secret set and differ only in trailing blank
\* lines for which Diff.plain() or Diff.pull() returns has_differences =
\* true, under one of the formats.
C24_TrailingBlankLinesCanDiffer ==
    \E k \in KubeTexts, p \in PlainTexts, fmt \in Formats :
       /\ format \in Formats
       /\ TrailingOnly(k, p)
       /\ \/ /\ Diff_plain(k, p, fmt).ok
             /\ Diff_plain(k, p, fmt).val.has_differences
          \/ /\ Diff_pull(k, p, fmt).ok
             /\ Diff_pull(k, p, fmt).val.has_differences

\* C24, amended: Diff.plain() and Diff.pull() parse both operands and write
\* them again as canonical JSON before the texts are split into lines, so
\* trailing whitespace and newlines are normalized away: on two operand
\* texts that denote the same secret set and differ only in trailing blank
\* lines both modes return has_differences = false and an empty
\* diff_output.
C24_TrailingBlankLinesNeverDiffer ==
    TrailingOnly(kubeText, plainText) =>
        /\ diffOut.plain # None => NoDifference(diffOut.plain)
        /\ diffOut.pull # None => NoDifference(diffOut.pull)

\* both modes ran on a record and the same record followed by two newlines
C24_Witness ==
    /\ TrailingOnly(kubeText, plainText)
    /\ kubeText.doc # << >> /\ kubeText.trail = 0 /\ plainText.trail = 2
    /\ splitlines(kubeText) # splitlines(plainText)
    /\ diffOut.plain # None /\ diffOut.pull # None
    /\ NoDifference(diffOut.plain) /\ NoDifference(diffOut.pull)

-----------------------------------------------------------------------------
(* Concurrent invocations against one environment: two `tkseal pull` and   *)
(* one Seal.run, each a process of its own with its own SecretState, all   *)
(* on the same two files. A process is interleaved with the others between *)
(* its cluster fetch or file read and its file write; nothing locks.       *)

\* most changes of the cluster's secrets during one concurrent run
MaxChanges == 1

Procs == { "pull A", "pull B", "seal" }

CommandOf(p) == IF p = "seal" THEN "seal" ELSE "pull"

\* the listings the cluster answers with during a concurrent run
RaceListings ==
    { Listing(<< Rec(1, "Opaque", PwSecret) >>),
      Listing(<< Rec(1, "Opaque", PwUser),
                 Rec(2, "kubernetes.io/tls", Token) >>) }

\* one process: its position, its SecretState cache, the text it holds
Invocation(pc, c, held) == [ pc |-> pc, cache |-> c, held |-> held ]

Event(op, p, text) == [ op |-> op, proc |-> p, text |-> text ]

RaceFrame ==
    << format, cache, fetchCount, sealCalls, compared, ClassifyVarsNoLast,
       DiffVars >>

InitRace ==
    /\ format \in Formats
    /\ cluster \in RaceListings
    /\ plainFile \in { serialize_secrets(d, format) : d \in LocalDocs }
    /\ sealedFile = Absent
    /\ invocations = [ p \in Procs |-> Invocation("start", None, None) ]
    /\ history = << >>
    /\ last = LastNone
    /\ cache = None /\ fetchCount = 0 /\ compared = None
    /\ sealCalls = << >>
    /\ rawIn = None /\ secretsOut = None
    /\ kubeText = None /\ plainText = None /\ diffOut = None

\* `tkseal pull` up to its prompt: Pull.run() reads the file and fetches the
\* cluster into this process's cache; no differences ends the command
RacePullRun ==
    \E p \in Procs :
       /\ CommandOf(p) = "pull"
       /\ invocations[p].pc = "start"
       /\ \E r \in { Pull_run(invocations[p].cache, cluster, "ok", plainFile,
                              format) } :
            /\ invocations' =
                 [ invocations EXCEPT
                     ![p] = Invocation(
                              IF r.call.res.ok
                                 /\ r.call.res.val.has_differences
                              THEN "prompt" ELSE "done",
                              r.call.cache, r.kube) ]
            /\ history' = Append(history, Event("fetch", p, r.kube))
       /\ last' = [ op |-> "Pull.run", proc |-> p ]
       /\ UNCHANGED << cluster, plainFile, sealedFile, RaceFrame >>

\* the operator confirms and Pull.write() stores the cached export
RacePullWrite ==
    \E p \in Procs :
       /\ invocations[p].pc = "prompt"
       /\ \E w \in { Pull_write(invocations[p].cache, cluster, "ok",
                                plainFile) } :
            /\ plainFile' = w.file
            /\ invocations' =
                 [ invocations EXCEPT
                     ![p] = Invocation("done", w.call.cache, @.held) ]
            /\ history' = Append(history, Event("write plain", p, w.file))
       /\ last' = [ op |-> "Pull.write", proc |-> p ]
       /\ UNCHANGED << cluster, sealedFile, RaceFrame >>

\* Seal.run() up to its write: plain_secrets() is read and every pair goes
\* through kubeseal; the process holds the text it will write
RaceSealRead ==
    \E p \in Procs :
       /\ CommandOf(p) = "seal"
       /\ invocations[p].pc = "start"
       /\ \E read \in { plain_secrets(plainFile, FALSE) } :
          \E r \in { Seal_run(read, format, 0, "ok", sealedFile) } :
            /\ invocations' =
                 [ invocations EXCEPT
                     ![p] = Invocation(IF r.res.ok THEN "sealed" ELSE "done",
                                       None, r.file) ]
            /\ history' = Append(history, Event("read plain", p, read))
       /\ last' = [ op |-> "Seal.run reads", proc |-> p ]
       /\ UNCHANGED << cluster, plainFile, sealedFile, RaceFrame >>

\* Seal.run() writes the sealed file
RaceSealWrite ==
    \E p \in Procs :
       /\ invocations[p].pc = "sealed"
       /\ sealedFile' = invocations[p].held
       /\ invocations' =
            [ invocations EXCEPT ![p] = Invocation("done", None, @.held) ]
       /\ history' =
            Append(history, Event("write sealed", p, invocations[p].held))
       /\ last' = [ op |-> "Seal.run writes", proc |-> p ]
       /\ UNCHANGED << cluster, plainFile, RaceFrame >>

\* somebody changes the cluster's secrets while the processes run
RaceClusterChange ==
    /\ Cardinality({ k \in DOMAIN history :
                       history[k].op = "cluster changes" }) < MaxChanges
    /\ cluster' \in RaceListings \ { cluster }
    /\ history' = Append(history, Event("cluster changes", "", None))
    /\ last' = [ op |-> "cluster changes", proc |-> "" ]
    /\ UNCHANGED << plainFile, sealedFile, invocations, RaceFrame >>

NextRace ==
    \/ RacePullRun
    \/ RacePullWrite
    \/ RaceSealRead
    \/ RaceSealWrite
    \/ RaceClusterChange

SpecRace == InitRace /\ [][NextRace]_vars

\* the positions in the history of the events `op` of process p
EventsOf(op, p) ==
    { k \in DOMAIN history : history[k].op = op /\ history[k].proc = p }

\* the positions in the history of the events `op` of any process
Writes(op) == { k \in DOMAIN history : history[k].op = op }

Latest(S) == CHOOSE k \in S : \A j \in S : j <= k

AllDone == \A p \in Procs : invocations[p].pc = "done"

\* the plaintext file holds the snapshot fetched first although the
\* snapshot fetched after it was written in between
StaleSnapshotWins ==
    \E p, q \in Procs :
       \E fp \in EventsOf("fetch", p), fq \in EventsOf("fetch", q) :
       \E wp \in EventsOf("write plain", p), wq \in EventsOf("write plain", q) :
          /\ fp < fq /\ fq < wq /\ wq < wp
          /\ history[fp].text # history[fq].text
          /\ history[wq].text = history[fq].text
          /\ plainFile = history[fp].text
          /\ plainFile # to_json(Secrets(cluster).val).val

\* the encrypted file was sealed from plaintext that is not the final
\* plaintext file
SealedFromOtherPlaintext ==
    \E p \in Procs :
       \E r \in EventsOf("read plain", p), w \in EventsOf("write sealed", p) :
          /\ r < w
          /\ history[r].text # plainFile
          /\ sealedFile = history[w].text
          /\ sealedFile # Seal_run(plainFile, format, 0, "ok", Absent).file

\* C25: concurrent invocations are not coordinated. Every Pull.write stores
\* the snapshot its own process fetched and every Seal.run writes the sealed
\* form of the plaintext it read itself, whatever the other processes
\* fetched or wrote in between, and each file holds what its last writer
\* put there.
C25_WritersAreNotCoordinated ==
    /\ \A p \in Procs :
         /\ \A w \in EventsOf("write plain", p) :
              \E f \in EventsOf("fetch", p) :
                 f < w /\ history[w].text = history[f].text
         /\ \A w \in EventsOf("write sealed", p) :
              \E r \in EventsOf("read plain", p) :
                 /\ r < w
                 /\ history[w].text =
                      Seal_run(history[r].text, format, 0, "ok", Absent).file
    /\ Writes("write plain") # {}
         => plainFile = history[Latest(Writes("write plain"))].text
    /\ Writes("write sealed") # {}
         => sealedFile = history[Latest(Writes("write sealed"))].text

\* both races at the end of one run: the two pulls wrote in the reverse
\* order of their fetches and the seal wrote what it had read before them
C25_Witness ==
    /\ AllDone
    /\ StaleSnapshotWins
    /\ SealedFromOtherPlaintext

-----------------------------------------------------------------------------
(* Convergence of pull *)

\* Pull.write() has just succeeded on the state
PullWritten_ok == last.op = "Pull.write" /\ last.res.ok

\* the cluster lists what the state fetched
ListingUnchanged == Secrets(cluster).ok /\ Secrets(cluster).val = cache

\* Diff(secret_state).plain() on a state with cache slot c, the cluster
\* answering with listing
DiffPlainOn(c, listing) ==
    LET k == kube_secrets(c, listing, "ok")
    IN  IF ~k.res.ok THEN k.res
        ELSE Diff_plain(k.res.val, plain_secrets(plainFile, FALSE), format)

\* C26: pull converges. Right after a successful Pull.write(), Pull.run()
\* and Diff.plain() on the same state report no differences; so do they on
\* a fresh state while the cluster lists what was fetched, and a second
\* `tkseal pull` then prompts for nothing and leaves the file as it is.
C26_PullConverges ==
    PullWritten_ok =>
       /\ NoDifference(
            Pull_run(cache, cluster, "ok", plainFile, format).call.res)
       /\ NoDifference(DiffPlainOn(cache, cluster))
       /\ ListingUnchanged =>
            /\ NoDifference(
                 Pull_run(None, cluster, "ok", plainFile, format).call.res)
            /\ NoDifference(DiffPlainOn(None, cluster))
            /\ \E o \in { Cmd_pull(cluster, "ok", plainFile, format, "ok",
                                   TRUE) } :
                  /\ o.exit = 0
                  /\ ~o.has_differences /\ ~o.prompted /\ ~o.acted
                  /\ o.file = plainFile

\* a write from the cache, after a Pull.run() compared the same export:
\* a non-empty export into a YAML environment, the cluster unchanged
C26_Witness ==
    /\ PullWritten_ok
    /\ ListingUnchanged
    /\ format = "yaml"
    /\ compared = plainFile
    /\ plainFile.doc # << >>
    /\ last.fetched = 0

-----------------------------------------------------------------------------
(* Records of forbidden or unlisted types and the export *)

\* a record the export must not depend on
IsNoise(raw) == raw.type \in FORBIDDEN_SECRET_TYPES \cup UnlistedTypes

IsNotNoise(raw) == ~IsNoise(raw)

NoiseTypes == { "kubernetes.io/service-account-token", "example.com/custom" }

\* the noise records of the items renamed and given other data
Disturbed(items) ==
    [ i \in DOMAIN items |->
        IF IsNoise(items[i])
        THEN RawRecord(ItemNames[4], items[i].type, BadPw)
        ELSE items[i] ]

\* listings that differ from `listing` only in records of forbidden or
\* unlisted types: those records removed, renamed and changed, or one more
\* of them listed first or last
NoiseVariants(listing) ==
    IF ~listing.hasItems THEN { }
    ELSE { Listing(SelectSeq(listing.items, IsNotNoise)),
           Listing(Disturbed(listing.items)) }
         \cup { Listing(<< Rec(3, t, BadPw) >> \o listing.items) :
                  t \in NoiseTypes }
         \cup { Listing(listing.items \o << Rec(3, t, PwUser) >>) :
                  t \in NoiseTypes }

\* what a fresh state exports, compares and writes when the cluster lists
\* `listing`
Exported(listing) ==
    [ kube_secrets |-> kube_secrets(None, listing, "ok").res,
      plain |-> DiffPlainOn(None, listing),
      pull  |-> Pull_run(None, listing, "ok", plainFile, format).call.res,
      file  |-> Pull_write(None, listing, "ok", plainFile).file ]

\* C27: records of forbidden or unlisted types do not influence the export.
\* A listing that differs from the cluster's only in such records (present
\* or not, their names, their data) gives the same kube_secrets() text or
\* error, the same Diff.plain() and Diff.pull() results and the same
\* plaintext file after Pull.write(); and what a call that fetched the
\* cluster returned is what it would have returned for that listing.
C27_NoiseDoesNotInfluenceExport ==
    \A other \in NoiseVariants(cluster) :
       /\ Exported(other) = Exported(cluster)
       /\ (last.op = "kube_secrets" /\ last.fetched = 1 /\ cache # None)
            => last.res = Exported(other).kube_secrets
       /\ (last.op = "Pull.run" /\ last.fetched = 1 /\ cache # None)
            => last.res = Exported(other).pull
       /\ (last.op = "Pull.write" /\ last.fetched = 1 /\ last.res.ok)
            => plainFile = Pull_write(None, other, "ok", Absent).file

\* kube_secrets() fetched a listing that holds a forbidden record next to a
\* manageable one and returned a non-empty export
C27_Witness ==
    /\ last.op = "kube_secrets" /\ last.fetched = 1 /\ last.res.ok
    /\ last.res.val.doc # << >>
    /\ cluster.hasItems
    /\ \E i \in DOMAIN cluster.items :
          cluster.items[i].type \in FORBIDDEN_SECRET_TYPES
    /\ NoiseVariants(cluster) # { }

-----------------------------------------------------------------------------
(* Every operation of one state and the two files: the operations of the   *)
(* state and of Pull, Diff(secret_state).plain(), plain_secrets() and      *)
(* Seal.run(), on one environment.                                         *)

FrameListings ==
    { NoItemsListing,
      Listing(<< Rec(1, "Opaque", PwSecret) >>),
      Listing(<< Rec(1, "kubernetes.io/dockerconfigjson", BadPw) >>) }

InitFrame ==
    /\ format \in Formats
    /\ cluster \in FrameListings
    /\ plainFile \in { Absent, GarbageText }
                       \cup { serialize_secrets(d, format) : d \in LocalDocs }
    /\ sealedFile = Absent
    /\ cache = None
    /\ fetchCount = 0
    /\ compared = None
    /\ last = LastNone
    /\ sealCalls = << >>
    /\ rawIn = None /\ secretsOut = None
    /\ kubeText = None /\ plainText = None /\ diffOut = None
    /\ invocations = None /\ history = << >>

\* Diff(secret_state).plain()
StateDiffPlain ==
    \E backend \in Backends :
       /\ MayCall(backend)
       /\ LET k == kube_secrets(cache, cluster, backend)
          IN  /\ cache' = k.cache
              /\ fetchCount' = fetchCount + k.fetched
              /\ last' = [ op |-> "Diff.plain", fetched |-> k.fetched,
                           res |-> IF ~k.res.ok THEN k.res
                                   ELSE Diff_plain(k.res.val,
                                          plain_secrets(plainFile, FALSE),
                                          format) ]
       /\ UNCHANGED << cluster, plainFile, compared, Untouched >>

NextFrame ==
    \/ KubeSecrets
    \/ GetForbiddenSecrets
    \/ PullRun
    \/ PullWrite
    \/ StateDiffPlain
    \/ PlainSecrets
    \/ SealRun

SpecFrame == InitFrame /\ [][NextFrame]_vars

\* the operations that only read
ReadOnlyOps ==
    { "Diff.plain", "Pull.run", "kube_secrets", "plain_secrets",
      "get_forbidden_secrets" }

\* C28: each operation writes only its own artifact. Diff.plain(),
\* Diff.pull() (run by Pull.run()), kube_secrets(), plain_secrets() and
\* get_forbidden_secrets() change neither file; Pull.write() never changes
\* the encrypted file, and not the plaintext file either when it fails;
\* Seal.run() never changes the plaintext file.
C28_EachOperationWritesOnlyItsArtifact ==
    [][ /\ last'.op \in ReadOnlyOps
          => plainFile' = plainFile /\ sealedFile' = sealedFile
        /\ last'.op = "Pull.write"
          => /\ sealedFile' = sealedFile
             /\ ~last'.res.ok => plainFile' = plainFile
        /\ last'.op = "Seal.run" => plainFile' = plainFile ]_vars

\* a Pull.write() that failed on an environment whose two files exist
C28_Witness ==
    /\ last.op = "Pull.write" /\ ~last.res.ok
    /\ plainFile \notin { Absent, EmptyText }
    /\ sealedFile # Absent

-----------------------------------------------------------------------------
(* The cache slot and failed fetches *)

\* the operations that go through the cache slot
CacheOps == { "kube_secrets", "get_forbidden_secrets", "Pull.run", "Pull.write" }

\* what Secrets.for_tk_env can raise against the present cluster
FetchErrors ==
    { r \in { Secrets_for_tk_env(cluster, b).res : b \in Backends } : ~r.ok }

\* C29: a failed cluster fetch does not populate the cache. A call made
\* while the slot is empty either fills it with the collection built from
\* the cluster's listing, after one kubectl call, or raises the error of the
\* fetch and leaves the slot empty, so that the next call fetches again;
\* a filled slot is never replaced or cleared, and nothing fetches again.
C29_FailedFetchLeavesCacheEmpty ==
    [][ /\ (cache = None /\ last'.op \in CacheOps)
          => \/ /\ cache' # None
                /\ Secrets(cluster).ok /\ cache' = Secrets(cluster).val
                /\ fetchCount' = fetchCount + 1
             \/ /\ cache' = None
                /\ last'.res \in FetchErrors
        /\ cache # None => cache' = cache /\ fetchCount' = fetchCount ]_vars

\* a call whose fetch succeeded after the kubectl call of an earlier one on
\* the same state had failed
C29_Witness ==
    /\ last.op \in { "kube_secrets", "get_forbidden_secrets" }
    /\ last.fetched = 1
    /\ fetchCount = 2
    /\ cache # None

-----------------------------------------------------------------------------
(* The types the export carries *)

\* the types of the records of an exported text
ExportedTypes(text) == { text.doc[i].type : i \in DOMAIN text.doc }

\* C30: every record of the JSON that kube_secrets() returns, and of the
\* plaintext file after Pull.write(), carries a type of the managed or the
\* managed-with-caution set, never an empty, unlisted or forbidden one.
C30_ExportedTypesAreManaged ==
    /\ (last.op = "kube_secrets" /\ last.res.ok)
         => ExportedTypes(last.res.val) \subseteq allowed_types
    /\ (last.op = "Pull.write" /\ last.res.ok)
         => ExportedTypes(plainFile) \subseteq allowed_types

====
